---- MODULE Spec2Model ----
(***************************************************************************)
(* Model of the SCA scan orchestrator of xray/commands/audit/scarunner.go: *)
(* runScaScan, getScaScansToPreform, getRequestedDirectoriesToScan,        *)
(* executeScaScan, GetTechDependencyTree, SetResolutionRepoIfExists,       *)
(* runScaWithTech, addThirdPartyDependenciesToParams and createFlatTree,   *)
(* and of the repository-template command of                               *)
(* artifactory/commands/repository/template.go: RepoTemplateCommand.Run    *)
(* with rclassCallback, pkgTypeCallback and projectKeyCallback.            *)
(*                                                                         *)
(* The external collaborators (technology detector, per-technology tree    *)
(* builders, config-file reader, scan backend, os.Chdir) are the           *)
(* environment: the detector's answers and the config files found on disk  *)
(* are fixed when the run starts (variables detector, confFiles), the      *)
(* outcomes of the other calls are chosen when the call is made.           *)
(***************************************************************************)
EXTENDS Naturals, Sequences, FiniteSets, TLC

(***************************************************************************)
(* Bounds of the model.                                                    *)
(***************************************************************************)
\* Longest list of working directories the caller passes (params.workingDirs).
MaxWorkingDirs == 2
\* Most scan units the detection results of one run give rise to.
MaxScans == 2
\* Longest unique-dependency list a tree builder returns to the flattener.
MaxDeps == 3
\* Longest list of exclusion patterns the caller passes (params.Exclusions()).
MaxExclusions == 2

\* Longest repository key in the answers map a callback is applied to.
MaxKeyLen == 2
\* Longest project key a callback is called with.
MaxProjectKeyLen == 1
\* Most applications of a callback to one questionnaire.
MaxApplications == 2
\* Most optional keys answered in one questionnaire.
MaxOptionalAnswers == 1

(***************************************************************************)
(* Paths.  A path is a sequence of components; an absolute path starts     *)
(* with the component "/".  os.Chdir resolves a relative path against the  *)
(* current working directory of the process.                               *)
(***************************************************************************)
IsAbs(p) == Len(p) > 0 /\ p[1] = "/"

ResolvePath(dir, p) == IF IsAbs(p) THEN p ELSE dir \o p

\* The directory the process is in when runScaScan is called.
InvocationDir == <<"/", "w">>

\* The directories that exist on disk.
ExistingDirs ==
    { <<"/", "w">>, <<"/", "w", "a">>, <<"/", "w", "b">>, <<"/", "w", "a", "b">> }

\* The spellings a caller may pass as a working directory.
RequestPaths == { <<"a">>, <<"b">>, <<"/", "w", "a">> }

NoPath == <<>>

(***************************************************************************)
(* Technologies (coreutils.Technology).  "maven" stands for the builders   *)
(* the dispatch treats alike; "docker" is a technology with no builder.    *)
(***************************************************************************)
Maven == "maven"
Npm == "npm"
Pip == "pip"
Nuget == "nuget"
Dotnet == "dotnet"
Docker == "docker"
NoTech == "none"

Technologies == {Maven, Npm, Pip, Nuget, Dotnet, Docker}


\* Fault: the dispatch has a builder for Docker.
SupportedTechs_WithDocker == {Maven, Npm, Pip, Nuget, Docker}

\* The technologies GetTechDependencyTree dispatches to a builder.
SupportedTechs == {Maven, Npm, Pip, Nuget}

\* techType: the project type whose <type>.yaml configures a technology.
\* A technology missing from the map (Docker) yields the zero ProjectType.
ZeroProjectType == "zero"

ProjectTypes == {Maven, Npm, Pip, Nuget, Dotnet, ZeroProjectType}

techType(tech) == IF tech \in {Maven, Npm, Pip, Nuget, Dotnet} THEN tech ELSE ZeroProjectType

(***************************************************************************)
(* Small helpers.                                                          *)
(***************************************************************************)
Range(s) == { s[i] : i \in 1..Len(s) }

\* Every order in which a Go map or set of these elements may be iterated.
Perms(S) ==
    { s \in [1..Cardinality(S) -> S] : \A i, j \in 1..Cardinality(S) : i # j => s[i] # s[j] }

SeqsUpTo(S, n) == UNION { [1..k -> S] : k \in 0..n }

(***************************************************************************)
(* xrayutils.ScaScanResult.  IsMultipleRootProject is a *bool: "nil" until *)
(* executeScaScan sets it.                                                 *)
(***************************************************************************)
NewScan(wd, tech, descriptors) ==
    [ WorkingDirectory |-> wd, Technology |-> tech, Descriptors |-> descriptors,
      IsMultipleRootProject |-> "nil", XrayResults |-> <<>> ]

(***************************************************************************)
(* Errors.  A unit error records the format string used (kind), the        *)
(* technology the message is formatted with (NoTech when the text names    *)
(* none) and the wrapped cause.  The aggregate error of runScaScan is the  *)
(* sequence of the joined errors; the empty sequence is nil.               *)
(***************************************************************************)
UnitError(kind, tech, cause) == [kind |-> kind, tech |-> tech, cause |-> cause]

NoError == UnitError("nil", NoTech, "nil")

\* fmt.Errorf("audit command in '%s' failed:\n%s", scan.WorkingDirectory, wdScanErr)
AuditFailed(wd, wdScanErr) == [auditIn |-> wd, msg |-> wdScanErr]

\* An error returned as it is, outside of any scan unit.
Plain(e) == [auditIn |-> NoPath, msg |-> e]

\* errors.Join(a, b): nil operands are dropped, the rest kept in order.
Join(a, b) == a \o b

(***************************************************************************)
(* The technology detector's answer for one requested directory: an error, *)
(* or a map technology -> (working directory -> descriptors).              *)
(***************************************************************************)
DescriptorLists == { <<>>, <<"d1">>, <<"d2", "d1">> }

\* The working directories detection may report, relative to the requested
\* directory: the directory itself and, in recursive mode, a subdirectory.
RelWds(recursive) == IF recursive THEN {<<>>, <<"a">>} ELSE {<<>>}

WorkingDirMaps(wds, descs) == UNION { [S -> descs] : S \in SUBSET wds }

\* The number of (technology, working directory) entries of a detection result,
\* a technology without working directory counting once.
RECURSIVE DetectedPairs(_, _)
DetectedPairs(r, ts) ==
    IF ts = {} THEN 0
    ELSE LET t == CHOOSE x \in ts : TRUE
         IN  (IF DOMAIN r[t] = {} THEN 1 ELSE Cardinality(DOMAIN r[t]))
             + DetectedPairs(r, ts \ {t})

\* A technology comes back with no working directory only when it was requested.
DetectionResults(recursive, techs, descs, requested) ==
    { r \in UNION { [K -> WorkingDirMaps(RelWds(recursive), descs)] :
                      K \in { k \in SUBSET techs : Cardinality(k) <= MaxScans } } :
        /\ \A t \in DOMAIN r : DOMAIN r[t] = {} => t \in requested
        /\ DetectedPairs(r, DOMAIN r) <= MaxScans }

RECURSIVE DetectedUnits(_, _)
DetectedUnits(d, dirs) ==
    IF dirs = {} THEN 0
    ELSE LET dir == CHOOSE x \in dirs : TRUE
         IN  (IF d[dir].failed THEN 0 ELSE DetectedPairs(d[dir].techs, DOMAIN d[dir].techs))
             + DetectedUnits(d, dirs \ {dir})

DetectError == [failed |-> TRUE, techs |-> <<>>]

Detected(r) == [failed |-> FALSE, techs |-> r]

\* A detection result with its working directories placed below dir.
PlaceUnder(dir, a) ==
    IF a.failed
    THEN a
    ELSE Detected([ t \in DOMAIN a.techs |->
                     [ wd \in { dir \o rel : rel \in DOMAIN a.techs[t] } |->
                         a.techs[t][SubSeq(wd, Len(dir) + 1, Len(wd))] ] ])

(***************************************************************************)
(* The per-technology configuration files the resolver looks for.          *)
(***************************************************************************)
NoRepo == <<>>

CliServer == <<"server", "cli">>

ConfStatuses == {"absent", "lookupErr", "readErr", "detailsErr", "ok"}

\* What <projectType>.yaml holds when it is found and readable.
ConfFile(status, projectType) ==
    [ status |-> status, targetRepo |-> <<"repo", projectType>>,
      serverDetails |-> <<"server", projectType>> ]

(***************************************************************************)
(* The exclusion patterns of detection.  The pattern string that           *)
(* fspatterns.PrepareExcludePathPattern makes is kept as what it is made   *)
(* from.                                                                   *)
(***************************************************************************)
DefaultExcludePatterns == <<"*.git*", "*node_modules*", "*target*", "*venv*", "*test*">>

PrepareExcludePathPattern(exclusions, recursive) ==
    [patterns |-> exclusions, recursive |-> recursive]

\* Fault: the defaults are added to the caller's patterns.
getExcludePattern_AddDefaults(exclusions, defaults, recursive) ==
    PrepareExcludePathPattern(exclusions \o defaults, recursive)

\* exclusions is the caller's list, defaults the value of DefaultExcludePatterns.
getExcludePattern(exclusions, defaults, recursive) ==
    PrepareExcludePathPattern(IF Len(exclusions) = 0 THEN exclusions \o defaults ELSE exclusions,
                              recursive)

(***************************************************************************)
(* State.                                                                  *)
(***************************************************************************)
VARIABLES
    params,                 \* *AuditParams
    detector,               \* requested directory -> the detector's answer for it
    confFiles,              \* project type -> its configuration file
    builder,                \* what a tree builder may return in this project
    defaultExcludePatterns, \* the package variable DefaultExcludePatterns
    cwd,                    \* the working directory of the process
    results,                \* results.ScaResults
    pc,                     \* position in runScaScan
    currentWorkingDir,      \* runScaScan: the directory captured by os.Getwd
    serverDetails,          \* runScaScan: the details read from params once
    requestedDirectories,   \* getScaScansToPreform: the directories to detect in
    isRecursive,
    dirIdx,                 \* getScaScansToPreform: index of the outer loop
    techToWorkingDirs,      \* getScaScansToPreform: the current detection result
    pending,                \* technologies of it the range loop has not visited
    scans,                  \* scansToPreform
    scanIdx,                \* runScaScan: index of the scan loop
    err,                    \* runScaScan: the named result err
    unit,                   \* executeScaScan and GetTechDependencyTree: their locals
    calls,                  \* history: the calls made to the collaborators, in order
    started,                \* history: indices executeScaScan was started with
    outcomes,               \* history: what each executeScaScan call returned
    resolves,               \* history: the calls of SetResolutionRepoIfExists
    builds,                 \* history: the calls of the tree builders
    restoreFailed,          \* history: the deferred os.Chdir failed
    resultsAtCall,          \* history: results.ScaResults when runScaScan was called
    answersMap,             \* InteractiveQuestionnaire.AnswersMap
    optionalKeysSuggests,   \* InteractiveQuestionnaire.OptionalKeysSuggests
    tpc,                    \* position in RepoTemplateCommand.Run
    template,               \* the content of the file at rtc.path
    terr,                   \* what RepoTemplateCommand.Run returned
    asked,                  \* history: the questions asked, in order
    applied                 \* history: the callbacks applied on their own

vars == << params, detector, confFiles, builder, defaultExcludePatterns, cwd, results, pc, currentWorkingDir, serverDetails,
           requestedDirectories, isRecursive, dirIdx, techToWorkingDirs, pending, scans,
           scanIdx, err, unit, calls, started, outcomes, resolves, builds,
           restoreFailed, resultsAtCall, answersMap, optionalKeysSuggests, tpc, template,
           terr, asked, applied >>

\* The state of the audit command.
auditVars == << params, detector, confFiles, builder, defaultExcludePatterns, cwd, results, pc,
                currentWorkingDir, serverDetails, requestedDirectories, isRecursive, dirIdx,
                techToWorkingDirs, pending, scans, scanIdx, err, unit, calls, started, outcomes,
                resolves, builds, restoreFailed, resultsAtCall >>

schedVars == << requestedDirectories, isRecursive, dirIdx, techToWorkingDirs, pending, scans >>

histVars == << calls, started, outcomes, resolves, builds, restoreFailed, resultsAtCall >>

\* The history but for calls.
unitHistVars == << started, outcomes, resolves, builds, restoreFailed, resultsAtCall >>

\* One call to a collaborator: the operation, the index of the scan unit it
\* was made for (0 outside of the scan loop) and what was passed or returned.
Call(op, idx, arg) == [op |-> op, idx |-> idx, arg |-> arg]

\* What no step of the audit command writes: its environment, and the
\* state of the repository-template command.
envVars == << detector, confFiles, builder, defaultExcludePatterns, answersMap,
             optionalKeysSuggests, tpc, template, terr, asked, applied >>

\* A map[string]interface{} is a function on its keys.
EmptyMap == [k \in {} |-> k]

\* No file.
NoTemplate == [written |-> FALSE, content |-> EmptyMap]

\* The repository-template command is not running.
TemplateIdle ==
    /\ answersMap = EmptyMap
    /\ optionalKeysSuggests = {}
    /\ tpc = "idle"
    /\ template = NoTemplate
    /\ terr = "nil"
    /\ asked = <<>>
    /\ applied = <<>>

NoUnit == [flatTree |-> <<>>, fullDependencyTrees |-> <<>>, serverDetails |-> <<>>]

\* A scan unit an earlier audit step left in results.
PriorScan ==
    [ WorkingDirectory |-> <<"/", "prior">>, Technology |-> Maven, Descriptors |-> <<>>,
      IsMultipleRootProject |-> "false", XrayResults |-> <<>> ]

\* The directories detection will be asked about.
DirsToDetect(workingDirs) ==
    IF Len(workingDirs) = 0 THEN {InvocationDir} ELSE Range(workingDirs)

(***************************************************************************)
(* The state when runScaScan is called, for a family of inputs: the lists  *)
(* of working directories, the requested technology sets, the technologies *)
(* and descriptor lists detection may report, the statuses of the config   *)
(* files, the flag settings, the earlier content of results and what the   *)
(* tree builders may return.                                               *)
(***************************************************************************)
InitFrom(paths, techRequests, techs, descs, confs, flags, priors, builderOutcomes) ==
    /\ \E wds \in SeqsUpTo(paths, MaxWorkingDirs), req \in techRequests, f \in flags :
          /\ params = [ workingDirs |-> wds, technologies |-> req,
                        depsRepo |-> f.depsRepo, serverDetails |-> CliServer,
                        ignoreConfigFile |-> f.ignoreConfigFile,
                        thirdPartyApplicabilityScan |-> f.thirdParty,
                        exclusions |-> f.exclusions,
                        dependenciesForApplicabilityScan |-> <<>> ]
          /\ \E d \in [DirsToDetect(wds) -> {DetectError} \cup
                        { Detected(r) : r \in DetectionResults(Len(wds) = 0, techs, descs, req) }] :
                /\ DetectedUnits(d, DOMAIN d) <= MaxScans
                /\ detector = [dir \in DOMAIN d |-> PlaceUnder(dir, d[dir])]
    /\ confFiles \in confs
    /\ builder = builderOutcomes
    /\ defaultExcludePatterns = DefaultExcludePatterns
    /\ cwd = InvocationDir
    /\ results \in priors
    /\ resultsAtCall = results
    /\ pc = "start"
    /\ currentWorkingDir = NoPath
    /\ serverDetails = NoRepo
    /\ requestedDirectories = <<>>
    /\ isRecursive = FALSE
    /\ dirIdx = 1
    /\ techToWorkingDirs = <<>>
    /\ pending = {}
    /\ scans = <<>>
    /\ scanIdx = 1
    /\ err = <<>>
    /\ unit = NoUnit
    /\ calls = <<>>
    /\ started = <<>>
    /\ outcomes = <<>>
    /\ resolves = <<>>
    /\ builds = <<>>
    /\ restoreFailed = FALSE
    /\ TemplateIdle

DefaultFlags ==
    [depsRepo |-> NoRepo, ignoreConfigFile |-> FALSE, thirdParty |-> FALSE, exclusions |-> <<>>]

\* Every project type has a configuration file of the same status.
UniformConfs(statuses) ==
    { [pt \in ProjectTypes |-> ConfFile(st, pt)] : st \in statuses }

(***************************************************************************)
(* runScaScan, lines 36-43: capture the working directory and the server   *)
(* details; either call may fail, and then runScaScan returns its error.   *)
(***************************************************************************)
Prepare ==
    /\ pc = "start"
    /\ \E getwdOk, detailsOk \in BOOLEAN :
          IF ~getwdOk
          THEN /\ err' = <<Plain(UnitError("getwd", NoTech, "os"))>>
               /\ pc' = "done"
               /\ UNCHANGED << currentWorkingDir, serverDetails >>
          ELSE IF ~detailsOk
          THEN /\ err' = <<Plain(UnitError("serverDetails", NoTech, "params"))>>
               /\ currentWorkingDir' = cwd
               /\ pc' = "done"
               /\ UNCHANGED serverDetails
          ELSE /\ currentWorkingDir' = cwd
               /\ serverDetails' = params.serverDetails
               /\ pc' = "dirs"
               /\ UNCHANGED err
    /\ UNCHANGED << params, cwd, results, schedVars, scanIdx, unit, histVars, envVars >>

(***************************************************************************)
(* getRequestedDirectoriesToScan: the current directory, recursively, when *)
(* no working directory was given; otherwise the given directories as a    *)
(* set, in the order the set's ToSlice yields them, not recursively.       *)
(***************************************************************************)
\* Fault: the given directories are returned as they were listed.
getRequestedDirectoriesToScan_AsListed(dir, workingDirs) ==
    IF Len(workingDirs) = 0
    THEN { [dirs |-> <<dir>>, recursive |-> TRUE] }
    ELSE { [dirs |-> workingDirs, recursive |-> FALSE] }

getRequestedDirectoriesToScan(dir, workingDirs) ==
    IF Len(workingDirs) = 0
    THEN { [dirs |-> <<dir>>, recursive |-> TRUE] }
    ELSE { [dirs |-> s, recursive |-> FALSE] : s \in Perms(Range(workingDirs)) }

RequestedDirs ==
    /\ pc = "dirs"
    /\ \E r \in getRequestedDirectoriesToScan(currentWorkingDir, params.workingDirs) :
          /\ requestedDirectories' = r.dirs
          /\ isRecursive' = r.recursive
    /\ dirIdx' = 1
    /\ pc' = "detect"
    /\ UNCHANGED << params, cwd, results, currentWorkingDir, serverDetails, techToWorkingDirs,
                    pending, scans, scanIdx, err, unit, histVars, envVars >>

(***************************************************************************)
(* getScaScansToPreform, lines 84-98: the scan units one technology of a   *)
(* detection result contributes.  wdOrder is the order in which the range  *)
(* over the technology's working directories visits them.                  *)
(***************************************************************************)
\* Fault: Dotnet is not skipped.
ScansOfTech_KeepDotnet(requestedDirectory, tech, workingDirs, wdOrder) ==
    (IF DOMAIN workingDirs = {}
     THEN <<NewScan(requestedDirectory, tech, <<>>)>>
     ELSE <<>>)
    \o [i \in 1..Len(wdOrder) |-> NewScan(wdOrder[i], tech, workingDirs[wdOrder[i]])]

\* Fault: the requested directory is scheduled whether or not working
\* directories were detected.
ScansOfTech_AlwaysRequested(requestedDirectory, tech, workingDirs, wdOrder) ==
    IF tech = Dotnet
    THEN <<>>
    ELSE <<NewScan(requestedDirectory, tech, <<>>)>>
         \o [i \in 1..Len(wdOrder) |-> NewScan(wdOrder[i], tech, workingDirs[wdOrder[i]])]

ScansOfTech(requestedDirectory, tech, workingDirs, wdOrder) ==
    IF tech = Dotnet
    THEN <<>>
    ELSE (IF DOMAIN workingDirs = {}
          THEN <<NewScan(requestedDirectory, tech, <<>>)>>
          ELSE <<>>)
         \o [i \in 1..Len(wdOrder) |-> NewScan(wdOrder[i], tech, workingDirs[wdOrder[i]])]

(***************************************************************************)
(* getScaScansToPreform, lines 76-82: detection for the next requested     *)
(* directory.  A detection error is logged and the directory skipped.      *)
(***************************************************************************)
\* Line 78: the call of coreutils.DetectTechnologiesDescriptors.
DetectCall(requestedDirectory) ==
    Call("detect", 0,
         [ dir |-> requestedDirectory, recursive |-> isRecursive,
           exclude |-> getExcludePattern(params.exclusions, defaultExcludePatterns, isRecursive) ])

\* Fault: a detection error ends the loop over the requested directories.
AfterDetectionError_Break(idx, n) == n + 1

\* Lines 79-82: the warning is followed by `continue`.
AfterDetectionError(idx, n) == idx + 1

DetectFail ==
    /\ pc = "detect"
    /\ dirIdx <= Len(requestedDirectories)
    /\ detector[requestedDirectories[dirIdx]].failed
    /\ dirIdx' = AfterDetectionError(dirIdx, Len(requestedDirectories))
    /\ calls' = Append(calls, DetectCall(requestedDirectories[dirIdx]))
    /\ UNCHANGED << params, cwd, results, pc, currentWorkingDir, serverDetails,
                    requestedDirectories, isRecursive, techToWorkingDirs, pending, scans,
                    scanIdx, err, unit, unitHistVars, envVars >>

DetectOk ==
    /\ pc = "detect"
    /\ dirIdx <= Len(requestedDirectories)
    /\ ~detector[requestedDirectories[dirIdx]].failed
    /\ LET r == detector[requestedDirectories[dirIdx]].techs
       IN  /\ techToWorkingDirs' = r
           /\ pending' = DOMAIN r
           /\ IF DOMAIN r = {}
              THEN /\ dirIdx' = dirIdx + 1
                   /\ pc' = "detect"
              ELSE /\ dirIdx' = dirIdx
                   /\ pc' = "range"
    /\ calls' = Append(calls, DetectCall(requestedDirectories[dirIdx]))
    /\ UNCHANGED << params, cwd, results, currentWorkingDir, serverDetails,
                    requestedDirectories, isRecursive, scans, scanIdx, err, unit,
                    unitHistVars, envVars >>

(***************************************************************************)
(* getScaScansToPreform, lines 84-98: one iteration of the range over the  *)
(* detected technologies, in the map's iteration order.                    *)
(***************************************************************************)
RangeTech ==
    /\ pc = "range"
    /\ \E tech \in pending :
          /\ \E wdOrder \in Perms(DOMAIN techToWorkingDirs[tech]) :
                scans' = scans \o ScansOfTech(requestedDirectories[dirIdx], tech,
                                              techToWorkingDirs[tech], wdOrder)
          /\ pending' = pending \ {tech}
          /\ IF pending \ {tech} = {}
             THEN /\ dirIdx' = dirIdx + 1
                  /\ pc' = "detect"
             ELSE /\ dirIdx' = dirIdx
                  /\ pc' = "range"
    /\ UNCHANGED << params, cwd, results, currentWorkingDir, serverDetails,
                    requestedDirectories, isRecursive, techToWorkingDirs, scanIdx, err,
                    unit, histVars, envVars >>

\* getScaScansToPreform returns: every requested directory was visited.
ReturnScans ==
    /\ pc = "detect"
    /\ dirIdx > Len(requestedDirectories)
    /\ pc' = "scheduled"
    /\ UNCHANGED << params, cwd, results, currentWorkingDir, serverDetails, schedVars,
                    scanIdx, err, unit, histVars, envVars >>

(***************************************************************************)
(* Dependency trees (xrayCmdUtils.GraphNode) and what the collaborators of *)
(* a scan unit may return.                                                 *)
(***************************************************************************)
Node(id, nodes) == [Id |-> id, Nodes |-> nodes]

\* A nil *GraphNode.
NilTree == Node("nil", <<>>)

Tree1 == Node("r1", << Node("a", << Node("c", <<>>) >>), Node("b", <<>>) >>)

Tree2 == Node("r2", << Node("b", <<>>) >>)

\* What a tree builder may return: (fullDependencyTrees, uniqueDeps, err).
BuilderOutcomes ==
    { [trees |-> <<Tree1>>,        uniqueDeps |-> <<"a", "b", "c">>, failed |-> FALSE],
      [trees |-> <<Tree1, Tree2>>, uniqueDeps |-> <<"a", "b", "c">>, failed |-> FALSE],
      [trees |-> <<>>,             uniqueDeps |-> <<>>,              failed |-> FALSE],
      [trees |-> <<>>,             uniqueDeps |-> <<>>,              failed |-> TRUE],
      [trees |-> <<Tree1>>,        uniqueDeps |-> <<"a">>,           failed |-> TRUE] }

\* What the scan backend may return: an error, or responses naming vulnerable ids.
ScanResponse(ids) == [Vulnerabilities |-> [i \in 1..Len(ids) |-> [Id |-> ids[i], ImpactPaths |-> <<>>]]]

BackendOutcomes ==
    { [failed |-> TRUE,  responses |-> <<>>],
      [failed |-> FALSE, responses |-> << ScanResponse(<<"c", "z">>), ScanResponse(<<"b">>) >>] }

\* os.Chdir succeeds only into an existing directory, and may fail even then.
ChdirOutcomes(target) == IF target \in ExistingDirs THEN {TRUE, FALSE} ELSE {FALSE}

(***************************************************************************)
(* createFlatTree: a root "root" with one leaf per entry of uniqueDeps.    *)
(***************************************************************************)
\* Fault: the children are appended in reverse order.
createFlatTree_Reversed(uniqueDeps) ==
    Node("root", [i \in 1..Len(uniqueDeps) |->
                    Node(uniqueDeps[Len(uniqueDeps) + 1 - i], <<>>)])

createFlatTree(uniqueDeps) ==
    Node("root", [i \in 1..Len(uniqueDeps) |-> Node(uniqueDeps[i], <<>>)])

(***************************************************************************)
(* sca.BuildImpactPathsForScanResponse: every finding gets the root-to-    *)
(* node paths of its identifier over all full trees.                       *)
(***************************************************************************)
RECURSIVE Flatten(_)
Flatten(ss) == IF Len(ss) = 0 THEN <<>> ELSE Head(ss) \o Flatten(Tail(ss))

RECURSIVE PathsIn(_, _, _)
PathsIn(node, id, prefix) ==
    LET here == Append(prefix, node.Id)
    IN  (IF node.Id = id THEN <<here>> ELSE <<>>)
        \o Flatten([i \in 1..Len(node.Nodes) |-> PathsIn(node.Nodes[i], id, here)])

ImpactPaths(id, trees) == Flatten([i \in 1..Len(trees) |-> PathsIn(trees[i], id, <<>>)])

BuildImpactPathsForScanResponse(responses, trees) ==
    [ r \in 1..Len(responses) |->
        [ Vulnerabilities |->
            [ v \in 1..Len(responses[r].Vulnerabilities) |->
                [ Id |-> responses[r].Vulnerabilities[v].Id,
                  ImpactPaths |-> ImpactPaths(responses[r].Vulnerabilities[v].Id, trees) ] ] ] ]

(***************************************************************************)
(* SetResolutionRepoIfExists: the error it returns ("nil" for none), the   *)
(* server details and dependency repository params hold afterwards, the    *)
(* project types whose configuration file it looked up, in order, and the  *)
(* project type whose file it read, if any.                                *)
(***************************************************************************)
ResolveResult(cause, p, lookups, read) ==
    [ cause |-> cause, serverDetails |-> p.serverDetails, depsRepo |-> p.depsRepo,
      lookups |-> lookups, read |-> read ]

\* Fault: a configuration file that cannot be read is passed over in silence.
ReadResolutionConf_SilentDefault(confs, projectType, p, lookups) ==
    LET conf == confs[projectType]
    IN  IF conf.status \in {"readErr", "detailsErr"}
        THEN ResolveResult("nil", p, lookups, <<projectType>>)
        ELSE [ cause |-> "nil", serverDetails |-> conf.serverDetails,
               depsRepo |-> conf.targetRepo, lookups |-> lookups, read |-> <<projectType>> ]

\* Lines 283-296: read the configuration file that was found.
ReadResolutionConf(confs, projectType, p, lookups) ==
    LET conf == confs[projectType]
    IN  IF conf.status = "readErr"
        THEN ResolveResult("confRead", p, lookups, <<projectType>>)
        ELSE IF conf.status = "detailsErr"
        THEN ResolveResult("confServerDetails", p, lookups, <<projectType>>)
        ELSE [ cause |-> "nil", serverDetails |-> conf.serverDetails,
               depsRepo |-> conf.targetRepo, lookups |-> lookups, read |-> <<projectType>> ]

\* Faulty variants of SetResolutionRepoIfExists: the IgnoreConfigFile flag may
\* be left unchecked, a missing file may be reported with an error, and the
\* second lookup, of dotnet.yaml, may be made for other technologies.
ResolutionVariant(p, tech, confs, checkIgnoreFlag, absentCause, dotnetFor) ==
    IF p.depsRepo # NoRepo \/ (checkIgnoreFlag /\ p.ignoreConfigFile)
    THEN ResolveResult("nil", p, <<>>, <<>>)
    ELSE LET first == techType(tech)
         IN  IF confs[first].status = "lookupErr"
             THEN ResolveResult("confLookup", p, <<first>>, <<>>)
             ELSE IF confs[first].status = "absent"
             THEN IF tech \in dotnetFor
                  THEN LET second == techType(Dotnet)
                           lookups == <<first, second>>
                       IN  IF confs[second].status = "lookupErr"
                           THEN ResolveResult("confLookup", p, lookups, <<>>)
                           ELSE IF confs[second].status = "absent"
                           THEN ResolveResult(absentCause, p, lookups, <<>>)
                           ELSE ReadResolutionConf(confs, second, p, lookups)
                  ELSE ResolveResult(absentCause, p, <<first>>, <<>>)
             ELSE ReadResolutionConf(confs, first, p, <<first>>)

\* Fault: params.IgnoreConfigFile() is not consulted.
SetResolutionRepoIfExists_FlagIgnored(p, tech, confs) ==
    ResolutionVariant(p, tech, confs, FALSE, "nil", {Nuget})

\* Fault: a missing configuration file is an error.
SetResolutionRepoIfExists_AbsentIsError(p, tech, confs) ==
    ResolutionVariant(p, tech, confs, TRUE, "confLookup", {Nuget})

\* Fault: dotnet.yaml is looked up for every technology.
SetResolutionRepoIfExists_DotnetForAll(p, tech, confs) ==
    ResolutionVariant(p, tech, confs, TRUE, "nil", Technologies)

SetResolutionRepoIfExists(p, tech, confs) ==
    IF p.depsRepo # NoRepo \/ p.ignoreConfigFile
    THEN ResolveResult("nil", p, <<>>, <<>>)
    ELSE LET first == techType(tech)
         IN  IF confs[first].status = "lookupErr"
             THEN ResolveResult("confLookup", p, <<first>>, <<>>)
             ELSE IF confs[first].status = "absent"
             THEN IF tech = Nuget
                  THEN LET second == techType(Dotnet)
                           lookups == <<first, second>>
                       IN  IF confs[second].status = "lookupErr"
                           THEN ResolveResult("confLookup", p, lookups, <<>>)
                           ELSE IF confs[second].status = "absent"
                           THEN ResolveResult("nil", p, lookups, <<>>)
                           ELSE ReadResolutionConf(confs, second, p, lookups)
                  ELSE ResolveResult("nil", p, <<first>>, <<>>)
             ELSE ReadResolutionConf(confs, first, p, <<first>>)

(***************************************************************************)
(* addThirdPartyDependenciesToParams.  getDirectDependenciesFromTree       *)
(* returns the identifiers as a set turned into a slice, in no fixed       *)
(* order: a slice of identifiers is kept as the number of times each       *)
(* identifier is in it.                                                    *)
(***************************************************************************)
\* Fault: the third-party flag is honoured for every technology.
shouldUseAllDependencies_FlagForAll(thirdPartyApplicabilityScan, tech) ==
    tech = Pip \/ thirdPartyApplicabilityScan

shouldUseAllDependencies(thirdPartyApplicabilityScan, tech) ==
    tech = Pip \/ (thirdPartyApplicabilityScan /\ tech = Npm)

\* Set.ToSlice(): every member once.
ToSlice(set) == [id \in set |-> 1]

getDirectDependenciesFromTree(dependencyTrees) ==
    LET directDependencies ==
            UNION { { dependencyTrees[t].Nodes[n].Id : n \in 1..Len(dependencyTrees[t].Nodes) } :
                    t \in 1..Len(dependencyTrees) }
    IN  ToSlice(directDependencies)

\* params.AppendDependenciesForApplicabilityScan: the identifiers are added
\* at the end of the list, as one batch.
AppendDependenciesForApplicabilityScan(list, directDependencies) ==
    Append(list, directDependencies)

DependenciesForApplicabilityScan(thirdPartyApplicabilityScan, tech, flatTree, fullDependencyTrees) ==
    IF shouldUseAllDependencies(thirdPartyApplicabilityScan, tech)
    THEN getDirectDependenciesFromTree(<<flatTree>>)
    ELSE getDirectDependenciesFromTree(fullDependencyTrees)

(***************************************************************************)
(* runScaScan, lines 46-59: nothing to scan is an informational return;    *)
(* otherwise the deferred restoration is registered and the loop starts.   *)
(***************************************************************************)
\* Fault: the restoration is deferred before the check for no scans.
NoScans_ThenRestore ==
    /\ pc = "scheduled"
    /\ Len(scans) = 0
    /\ pc' = "loop"
    /\ UNCHANGED << params, cwd, results, currentWorkingDir, serverDetails, schedVars,
                    scanIdx, err, unit, histVars, envVars >>

NoScans ==
    /\ pc = "scheduled"
    /\ Len(scans) = 0
    /\ pc' = "done"
    /\ UNCHANGED << params, cwd, results, currentWorkingDir, serverDetails, schedVars,
                    scanIdx, err, unit, histVars, envVars >>

StartLoop ==
    /\ pc = "scheduled"
    /\ Len(scans) > 0
    /\ scanIdx' = 1
    /\ pc' = "loop"
    /\ UNCHANGED << params, cwd, results, currentWorkingDir, serverDetails, schedVars,
                    err, unit, histVars, envVars >>

(***************************************************************************)
(* runScaScan, lines 63-69: what the loop does with the error of one       *)
(* executeScaScan call.                                                    *)
(***************************************************************************)
\* Fault: the error of a failed scan replaces err instead of joining it.
JoinScanError_Overwrite(e, scan, wdScanErr) ==
    IF wdScanErr = NoError
    THEN e
    ELSE <<AuditFailed(scan.WorkingDirectory, wdScanErr)>>

JoinScanError(e, scan, wdScanErr) ==
    IF wdScanErr = NoError
    THEN e
    ELSE Join(e, <<AuditFailed(scan.WorkingDirectory, wdScanErr)>>)

\* Fault: the `continue` after a failed scan is missing.
AddScanToResults_Always(res, scan, wdScanErr) == Append(res, scan)

AddScanToResults(res, scan, wdScanErr) ==
    IF wdScanErr = NoError THEN Append(res, scan) ELSE res

\* Fault: a failed scan is followed by `break`.
NextScanIdx_Break(idx, n, wdScanErr) == IF wdScanErr = NoError THEN idx + 1 ELSE n + 1

\* The index of the next iteration: a failed scan is followed by `continue`.
NextScanIdx(idx, n, wdScanErr) == idx + 1

\* executeScaScan returned wdScanErr, leaving the scan unit as `scan`.
EndOfScan(wdScanErr, scan) ==
    /\ err' = JoinScanError(err, scan, wdScanErr)
    /\ results' = AddScanToResults(results, scan, wdScanErr)
    /\ scanIdx' = NextScanIdx(scanIdx, Len(scans), wdScanErr)
    /\ outcomes' = Append(outcomes, wdScanErr)
    /\ unit' = NoUnit
    /\ pc' = "loop"

(***************************************************************************)
(* executeScaScan, lines 137-139: change to the unit's working directory.  *)
(***************************************************************************)
\* Fault: the error of os.Chdir is dropped.
ChdirError_Ignored(ok) == NoError

\* Lines 137-139: the error executeScaScan returns after os.Chdir.
ChdirError(ok) == IF ok THEN NoError ELSE UnitError("chdir", NoTech, "os")

ExecuteChdir ==
    /\ pc = "loop"
    /\ scanIdx <= Len(scans)
    /\ started' = Append(started, scanIdx)
    /\ LET scan == scans[scanIdx]
           target == ResolvePath(cwd, scan.WorkingDirectory)
       IN  \E ok \in ChdirOutcomes(target) :
              /\ calls' = Append(calls, Call("chdir", scanIdx, [target |-> target, ok |-> ok]))
              /\ cwd' = IF ok THEN target ELSE cwd
              /\ IF ChdirError(ok) = NoError
                 THEN /\ pc' = "tree"
                      /\ UNCHANGED << err, results, scanIdx, outcomes, unit >>
                 ELSE EndOfScan(ChdirError(ok), scan)
    /\ UNCHANGED << params, currentWorkingDir, serverDetails, schedVars, resolves, builds,
                    restoreFailed, resultsAtCall, envVars >>

(***************************************************************************)
(* GetTechDependencyTree, lines 203-215: read the server details, then     *)
(* resolve the resolution repository.  An error here reaches               *)
(* executeScaScan as techErr (lines 141-143).                              *)
(***************************************************************************)
\* Fault: the message is formatted without the technology.
TreeBuildError_NoTech(tech, cause) == UnitError("treeBuild", NoTech, cause)

\* fmt.Errorf("failed while building '%s' dependency tree:\n%s", scan.Technology, techErr)
TreeBuildError(tech, cause) == UnitError("treeBuild", tech, cause)

ResolveRepo ==
    /\ pc = "tree"
    /\ LET scan == scans[scanIdx]
           r == SetResolutionRepoIfExists(params, scan.Technology, confFiles)
       IN  \E detailsOk \in BOOLEAN :
              IF ~detailsOk
              THEN /\ EndOfScan(TreeBuildError(scan.Technology, "serverDetails"), scan)
                   /\ UNCHANGED << params, resolves, calls >>
              ELSE /\ params' = [params EXCEPT !.serverDetails = r.serverDetails,
                                               !.depsRepo = r.depsRepo]
                   /\ calls' = Append(calls, Call("resolve", scanIdx, scan.Technology))
                   /\ resolves' = Append(resolves,
                                         [ idx |-> scanIdx, tech |-> scan.Technology, cwd |-> cwd,
                                           before |-> [ serverDetails |-> params.serverDetails,
                                                        depsRepo |-> params.depsRepo ],
                                           result |-> r ])
                   /\ IF r.cause # "nil"
                      THEN EndOfScan(TreeBuildError(scan.Technology, r.cause), scan)
                      ELSE /\ unit' = [unit EXCEPT !.serverDetails = params.serverDetails]
                           /\ pc' = "build"
                           /\ UNCHANGED << err, results, scanIdx, outcomes >>
    /\ UNCHANGED << cwd, currentWorkingDir, serverDetails, schedVars, started, builds,
                    restoreFailed, resultsAtCall, envVars >>

(***************************************************************************)
(* GetTechDependencyTree, lines 218-237: what the builder of a technology  *)
(* is handed.  The Python builder gets the server details read at line 208 *)
(* and params.DepsRepo() as it is at line 231; every other builder gets    *)
(* params and reads both from it.                                          *)
(***************************************************************************)
BuilderInput(tech, p, localServerDetails) ==
    [ serverDetails |-> IF tech = Pip THEN localServerDetails ELSE p.serverDetails,
      depsRepo |-> p.depsRepo ]

(***************************************************************************)
(* GetTechDependencyTree, lines 216-243, and executeScaScan, lines         *)
(* 141-146: dispatch to the technology's builder and judge what it gave.   *)
(***************************************************************************)
\* Lines 238-243: no flat tree on an error or an empty list.
FlatTreeOf(o) ==
    IF o.failed \/ Len(o.uniqueDeps) = 0 THEN NilTree ELSE createFlatTree(o.uniqueDeps)

\* Fault: the flat tree is looked at before techErr.
TreeError_EmptyFirst(tech, techErr, flatTree) ==
    IF flatTree = NilTree \/ Len(flatTree.Nodes) = 0
    THEN UnitError("noDeps", NoTech, "none")
    ELSE IF techErr # "nil"
    THEN TreeBuildError(tech, techErr)
    ELSE NoError

\* Fault: the check for an absent or childless flat tree is missing.
TreeError_EmptyAllowed(tech, techErr, flatTree) ==
    IF techErr # "nil" THEN TreeBuildError(tech, techErr) ELSE NoError

\* Lines 141-146: the error executeScaScan returns after GetTechDependencyTree.
TreeError(tech, techErr, flatTree) ==
    IF techErr # "nil"
    THEN TreeBuildError(tech, techErr)
    ELSE IF flatTree = NilTree \/ Len(flatTree.Nodes) = 0
    THEN UnitError("noDeps", NoTech, "none")
    ELSE NoError

BuildTree ==
    /\ pc = "build"
    /\ LET scan == scans[scanIdx]
       IN  IF scan.Technology \notin SupportedTechs
           THEN /\ EndOfScan(TreeError(scan.Technology, "unsupported", NilTree), scan)
                /\ UNCHANGED << builds, calls >>
           ELSE \E o \in builder :
                   LET flatTree == FlatTreeOf(o)
                       e == TreeError(scan.Technology, IF o.failed THEN "builder" ELSE "nil", flatTree)
                   IN  /\ calls' = calls \o <<Call("build", scanIdx, scan.Technology)>>
                                      \o (IF flatTree = NilTree
                                          THEN <<>>
                                          ELSE <<Call("flatten", scanIdx, o.uniqueDeps)>>)
                       /\ builds' = Append(builds,
                                            [ idx |-> scanIdx, outcome |-> o, cwd |-> cwd,
                                              input |-> BuilderInput(scan.Technology, params,
                                                                     unit.serverDetails) ])
                       /\ IF e # NoError
                          THEN EndOfScan(e, scan)
                          ELSE /\ unit' = [unit EXCEPT !.flatTree = flatTree,
                                                       !.fullDependencyTrees = o.trees]
                               /\ pc' = "scan"
                               /\ UNCHANGED << err, results, scanIdx, outcomes >>
    /\ UNCHANGED << params, cwd, currentWorkingDir, serverDetails, schedVars, started,
                    resolves, restoreFailed, resultsAtCall, envVars >>

(***************************************************************************)
(* executeScaScan, lines 148-155, with runScaWithTech: scan the flat tree, *)
(* attach the impact paths, record the outcome on the unit.                *)
(***************************************************************************)
\* Fault: the responses are returned as the backend gave them.
runScaWithTech_Unreconciled(b, fullDependencyTrees) == b.responses

\* Lines 165-170, for a backend call that returned no error: the responses
\* with their impact paths over the full dependency trees.
runScaWithTech(b, fullDependencyTrees) ==
    BuildImpactPathsForScanResponse(b.responses, fullDependencyTrees)

\* Fault: a single tree counts as several roots.
IsMultipleRootProject_AnyTree(fullDependencyTrees) ==
    IF Len(fullDependencyTrees) >= 1 THEN "true" ELSE "false"

\* Line 152: clientutils.Pointer(len(fullDependencyTrees) > 1).
IsMultipleRootProject(fullDependencyTrees) ==
    IF Len(fullDependencyTrees) > 1 THEN "true" ELSE "false"

\* Fault: the backend is sent to the server params names at the time of the call.
ScanServerDetails_FromParams(captured, p) == p.serverDetails

\* Lines 40, 63 and 160: the backend is sent to the server runScaScan read
\* from params before the loop, whatever params names by now.
ScanServerDetails(captured, p) == captured

\* Fault: the message is formatted without the technology.
ScanError_NoTech(tech) == UnitError("xrayScan", NoTech, "backend")

\* fmt.Errorf("'%s' Xray dependency tree scan request failed:\n%s", scan.Technology, xrayErr)
ScanError(tech) == UnitError("xrayScan", tech, "backend")

RunScan ==
    /\ pc = "scan"
    /\ LET scan == scans[scanIdx]
           sent(b) == Call("scan", scanIdx, [ flatTree |-> unit.flatTree,
                                              serverDetails |->
                                                  ScanServerDetails(serverDetails, params),
                                              failed |-> b.failed ])
       IN  \E b \in BackendOutcomes :
              IF b.failed
              THEN /\ EndOfScan(ScanError(scan.Technology), scan)
                   /\ calls' = Append(calls, sent(b))
                   /\ UNCHANGED << params, scans >>
              ELSE LET done == [scan EXCEPT
                                  !.IsMultipleRootProject =
                                      IsMultipleRootProject(unit.fullDependencyTrees),
                                  !.XrayResults =
                                      @ \o runScaWithTech(b, unit.fullDependencyTrees)]
                   IN  /\ calls' = calls \o << sent(b),
                                              Call("reconcile", scanIdx,
                                                   [ responses |-> b.responses,
                                                     trees |-> unit.fullDependencyTrees ]) >>
                       /\ scans' = [scans EXCEPT ![scanIdx] = done]
                       /\ params' = [params EXCEPT !.dependenciesForApplicabilityScan =
                                        AppendDependenciesForApplicabilityScan(@,
                                                  DependenciesForApplicabilityScan(
                                                    params.thirdPartyApplicabilityScan,
                                                    scan.Technology, unit.flatTree,
                                                    unit.fullDependencyTrees))]
                       /\ EndOfScan(NoError, done)
    /\ UNCHANGED << cwd, currentWorkingDir, serverDetails, requestedDirectories, isRecursive,
                    dirIdx, techToWorkingDirs, pending, started, resolves, builds,
                    restoreFailed, resultsAtCall, envVars >>

(***************************************************************************)
(* runScaScan, lines 56-59 and 70: after the last unit the deferred        *)
(* function returns to the captured directory and joins its error.         *)
(***************************************************************************)
\* Fault: the deferred function does not change directory.
RestoredDir_Stay(dir, captured, ok) == dir

RestoredDir(dir, captured, ok) == IF ok THEN captured ELSE dir

JoinRestoreError(e, ok) ==
    IF ok THEN e ELSE Join(e, <<Plain(UnitError("chdir", NoTech, "os"))>>)

Restore ==
    /\ pc = "loop"
    /\ scanIdx > Len(scans)
    /\ \E ok \in ChdirOutcomes(currentWorkingDir) :
          /\ cwd' = RestoredDir(cwd, currentWorkingDir, ok)
          /\ err' = JoinRestoreError(err, ok)
          /\ restoreFailed' = ~ok
          /\ calls' = Append(calls, Call("chdir", 0, [target |-> currentWorkingDir, ok |-> ok]))
    /\ pc' = "done"
    /\ UNCHANGED << params, results, currentWorkingDir, serverDetails, schedVars, scanIdx,
                    unit, started, outcomes, resolves, builds, resultsAtCall, envVars >>

(***************************************************************************)
(* The scheduling part of runScaScan on its own, over a wide family of     *)
(* detection results.                                                      *)
(***************************************************************************)
SchedTechs == {Npm, Nuget, Dotnet}

SchedDescriptors == { <<>>, <<"d2", "d1">> }

SchedRequests == { k \in SUBSET SchedTechs : Cardinality(k) <= 1 }

InitSched ==
    InitFrom(RequestPaths, SchedRequests, SchedTechs,
             SchedDescriptors, UniformConfs({"absent"}), {DefaultFlags}, {<<>>},
             BuilderOutcomes)

NextSched == Prepare \/ RequestedDirs \/ DetectFail \/ DetectOk \/ RangeTech \/ ReturnScans

SpecSched == InitSched /\ [][NextSched]_vars

(***************************************************************************)
(* The scheduling part for one npm project, with the exclusion patterns    *)
(* the caller may pass: none, or patterns that are or are not among the    *)
(* defaults.                                                               *)
(***************************************************************************)
ExclusionPatterns == {"*.git*", "*dist*"}

ExcludeFlags ==
    { [DefaultFlags EXCEPT !.exclusions = e] : e \in SeqsUpTo(ExclusionPatterns, MaxExclusions) }

InitExclude ==
    InitFrom({<<"a">>}, {{}}, {Npm}, {<<"d1">>}, UniformConfs({"absent"}), ExcludeFlags, {<<>>},
             BuilderOutcomes)

SpecExclude == InitExclude /\ [][NextSched]_vars

(***************************************************************************)
(* The whole of runScaScan, over a family of small projects.               *)
(***************************************************************************)
RunPaths == { <<"a">>, <<"b">> }

RunTechs == {Npm, Pip, Nuget, Docker}

RunRequests == { {Npm} }

RunDescriptors == { <<"d1">> }

\* npm.yaml is found and readable, pip.yaml is found and unreadable, no
\* other configuration file exists.
RunConfs ==
    { [pt \in ProjectTypes |->
         ConfFile(IF pt = Npm THEN "ok" ELSE IF pt = Pip THEN "readErr" ELSE "absent", pt)] }

Init ==
    InitFrom(RunPaths, RunRequests, RunTechs, RunDescriptors,
             RunConfs, {DefaultFlags}, {<<PriorScan>>}, BuilderOutcomes)

Next ==
    \/ Prepare
    \/ RequestedDirs
    \/ DetectFail
    \/ DetectOk
    \/ RangeTech
    \/ ReturnScans
    \/ NoScans
    \/ StartLoop
    \/ ExecuteChdir
    \/ ResolveRepo
    \/ BuildTree
    \/ RunScan
    \/ Restore

Spec == Init /\ [][Next]_vars

(***************************************************************************)
(* runScaScan for one npm project whose tree builder may return any list   *)
(* of identifiers, repeated or not, in any order: the inputs of            *)
(* createFlatTree.                                                         *)
(***************************************************************************)
DepIds == {"a", "b"}

FlatBuilderOutcomes ==
    { [trees |-> <<Tree1>>, uniqueDeps |-> u, failed |-> FALSE] : u \in SeqsUpTo(DepIds, MaxDeps) }

InitFlat ==
    InitFrom({}, {{}}, {Npm}, {<<"d1">>}, UniformConfs({"absent"}), {DefaultFlags}, {<<>>},
             FlatBuilderOutcomes)

SpecFlat == InitFlat /\ [][Next]_vars

(***************************************************************************)
(* runScaScan over projects detected as Pip, NuGet or both in the current  *)
(* directory, with every combination of pip.yaml, nuget.yaml and           *)
(* dotnet.yaml being absent, unsearchable, unreadable, without server      *)
(* details or usable, and with the caller having set a dependency          *)
(* repository, having disabled the config-file lookup, or neither.         *)
(***************************************************************************)
ResolveTechs == {Pip, Nuget}

ResolveConfs ==
    { [pt \in ProjectTypes |->
         ConfFile(IF pt = Pip THEN sp ELSE IF pt = Nuget THEN sn
                  ELSE IF pt = Dotnet THEN sd ELSE "absent", pt)] :
      sp \in ConfStatuses, sn \in ConfStatuses, sd \in ConfStatuses }

CliRepo == <<"repo", "cli">>

ResolveFlags ==
    { DefaultFlags,
      [DefaultFlags EXCEPT !.depsRepo = CliRepo],
      [DefaultFlags EXCEPT !.ignoreConfigFile = TRUE] }

ResolveBuilderOutcomes ==
    { [trees |-> <<Tree1>>, uniqueDeps |-> <<"a", "b", "c">>, failed |-> FALSE],
      [trees |-> <<>>,      uniqueDeps |-> <<>>,              failed |-> TRUE] }

InitResolve ==
    InitFrom({}, {{}}, ResolveTechs, {<<"d1">>}, ResolveConfs, ResolveFlags, {<<>>},
             ResolveBuilderOutcomes)

SpecResolve == InitResolve /\ [][Next]_vars

(***************************************************************************)
(* runScaScan over projects detected as npm, Pip, NuGet or two of them in  *)
(* the current directory, with the third-party applicability flag set or   *)
(* not, and builders that return two trees sharing a direct dependency, a  *)
(* list with a repeated identifier, or an error.                           *)
(***************************************************************************)
DepsTechs == {Npm, Pip, Nuget}

DepsFlags == { DefaultFlags, [DefaultFlags EXCEPT !.thirdParty = TRUE] }

DepsBuilderOutcomes ==
    { [trees |-> <<Tree1, Tree2>>, uniqueDeps |-> <<"a", "b", "c">>, failed |-> FALSE],
      [trees |-> <<Tree2>>,        uniqueDeps |-> <<"b", "c", "b">>, failed |-> FALSE],
      [trees |-> <<>>,             uniqueDeps |-> <<>>,              failed |-> TRUE] }

InitDeps ==
    InitFrom({}, {{}}, DepsTechs, {<<"d1">>}, UniformConfs({"absent"}), DepsFlags, {<<>>},
             DepsBuilderOutcomes)

SpecDeps == InitDeps /\ [][Next]_vars

(***************************************************************************)
(* runScaScan over projects detected as Docker, npm or both in the current *)
(* directory, with every configuration file absent or every one found and  *)
(* unreadable.                                                             *)
(***************************************************************************)
InitDispatch ==
    InitFrom({}, {{}}, {Docker, Npm}, {<<"d1">>}, UniformConfs({"absent", "readErr"}),
             {DefaultFlags}, {<<>>}, BuilderOutcomes)

SpecDispatch == InitDispatch /\ [][Next]_vars

(***************************************************************************)
(* The repository-template command.  A Go string whose characters matter   *)
(* (a repository key, a project key) is the sequence of its characters; a  *)
(* value of the answers map is a string or a value of another type.        *)
(***************************************************************************)
TemplateType == "templateType"
Create == "create"
Update == "update"
MandatoryUrl == "mandatoryUrl"
Key == "key"
Rclass == "rclass"
PackageType == "packageType"
Url == "url"
ProjectKey == "projectKey"
Local == "local"
Remote == "remote"
Virtual == "virtual"
Federated == "federated"

\* ioutils.SaveAndExit.
SaveAndExit == ":x"

\* A string value of the answers map.
Str(chars) == [isString |-> TRUE, chars |-> chars]

\* A value of the answers map that is not a string.
NotAString == [isString |-> FALSE, chars |-> <<>>]

\* A string that is compared as a whole: one of the constants above.
Word(w) == Str(<<w>>)

\* m[k] = v.
MapSet(m, k, v) == [x \in DOMAIN m \cup {k} |-> IF x = k THEN v ELSE m[x]]

\* *ioutils.InteractiveQuestionnaire, as far as the callbacks use it.
Questionnaire(answers, suggests) == [AnswersMap |-> answers, OptionalKeysSuggests |-> suggests]

\* What a callback returns and leaves behind: the questionnaire, the error
\* and the questions it asked.
Returns(iq, e, questions) == [iq |-> iq, err |-> e, asked |-> questions]

\* The audit command is not running.
AuditIdle ==
    /\ params = [ workingDirs |-> <<>>, technologies |-> {}, depsRepo |-> NoRepo,
                  serverDetails |-> CliServer, ignoreConfigFile |-> FALSE,
                  thirdPartyApplicabilityScan |-> FALSE, exclusions |-> <<>>,
                  dependenciesForApplicabilityScan |-> <<>> ]
    /\ detector = EmptyMap
    /\ confFiles = [pt \in ProjectTypes |-> ConfFile("absent", pt)]
    /\ builder = {}
    /\ defaultExcludePatterns = DefaultExcludePatterns
    /\ cwd = InvocationDir
    /\ results = <<>>
    /\ resultsAtCall = <<>>
    /\ pc = "done"
    /\ currentWorkingDir = NoPath
    /\ serverDetails = NoRepo
    /\ requestedDirectories = <<>>
    /\ isRecursive = FALSE
    /\ dirIdx = 1
    /\ techToWorkingDirs = <<>>
    /\ pending = {}
    /\ scans = <<>>
    /\ scanIdx = 1
    /\ err = <<>>
    /\ unit = NoUnit
    /\ calls = <<>>
    /\ started = <<>>
    /\ outcomes = <<>>
    /\ resolves = <<>>
    /\ builds = <<>>
    /\ restoreFailed = FALSE

(***************************************************************************)
(* The optional keys of each repository class: optionalSuggestsMap, lines   *)
(* 220-298, and getLocalRepoConfKeys, getRemoteRepoConfKeys and            *)
(* getVirtualRepoConfKeys, each with the key lists of lines 300-417 that   *)
(* its switch chooses from.                                                *)
(***************************************************************************)
\* optionalSuggestsMap: every key is mapped to the suggestion of its own text.
optionalSuggestsMap ==
    { ":x", "description", "notes", "includesPattern", "excludesPattern",
       "repoLayoutRef", "projectKey", "environment", "handleReleases",
       "handleSnapshots", "maxUniqueSnapshots",
       "suppressPomConsistencyChecks", "blackedOut", "downloadRedirect",
       "blockPushingSchema1", "debianTrivialLayout",
       "externalDependenciesEnabled", "externalDependenciesPatterns",
       "checksumPolicyType", "maxUniqueTags", "snapshotVersionBehavior",
       "xrayIndex", "propertySets", "archiveBrowsingEnabled",
       "calculateYumMetadata", "yumRootDepth", "dockerApiVersion",
       "enableFileListsIndexing", "optionalIndexCompressionFormats", "url",
       "username", "password", "proxy", "primaryKeyPairRef",
       "remoteRepoChecksumPolicyType", "hardFail", "offline",
       "storeArtifactsLocally", "socketTimeoutMillis", "localAddress",
       "retrievalCachePeriodSecs", "failedRetrievalCachePeriodSecs",
       "missedRetrievalCachePeriodSecs", "unusedArtifactsCleanupEnabled",
       "unusedArtifactsCleanupPeriodHours", "assumedOfflinePeriodSecs",
       "fetchJarsEagerly", "fetchSourcesEagerly", "rejectInvalidJars",
       "shareConfiguration", "synchronizeProperties",
       "blockMismatchingMimeTypes", "allowAnyHostAuth",
       "enableCookieManagement", "bowerRegistryUrl", "composerRegistryUrl",
       "pyPIRegistryUrl", "vcsType", "vcsGitProvider", "vcsGitDownloadUrl",
       "bypassHeadRequests", "clientTlsCertificate", "feedContextPath",
       "downloadContextPath", "v3FeedUrl", "contentSynchronisation",
       "listRemoteFolderItems", "podsSpecsRepoUrl",
       "enableTokenAuthentication", "repositories",
       "artifactoryRequestsCanRetrieveRemoteArtifacts", "keyPair",
       "pomRepositoryReferencesCleanupPolicy", "defaultDeploymentRepo",
       "forceMavenAuthentication", "forceNugetAuthentication",
       "externalDependenciesRemoteRepo" }

\* ioutils.GetSuggestsFromKeys: the suggestion the map holds for each of
\* the keys, the zero suggestion (of empty text) for a key it does not
\* hold.  A list of suggestions is kept as the set of their texts.
GetSuggestsFromKeys(keys, suggestionMap) ==
    { IF k \in suggestionMap THEN k ELSE "" : k \in Range(keys) }

getLocalRepoConfKeys(pkgType) ==
    LET
        baseLocalRepoConfKeys ==
            << "description", "notes", "includesPattern", "excludesPattern",
               "repoLayoutRef", "projectKey", "environment", "blackedOut",
               "xrayIndex", "propertySets", "archiveBrowsingEnabled",
               "optionalIndexCompressionFormats", "downloadRedirect",
               "blockPushingSchema1" >>
        mavenGradleLocalRepoConfKeys ==
            << "maxUniqueSnapshots", "handleReleases", "handleSnapshots",
               "suppressPomConsistencyChecks", "snapshotVersionBehavior",
               "checksumPolicyType" >>
        rpmLocalRepoConfKeys ==
            << "yumRootDepth", "calculateYumMetadata", "enableFileListsIndexing",
               "primaryKeyPairRef" >>
        nugetLocalRepoConfKeys ==
            << "maxUniqueSnapshots", "forceNugetAuthentication" >>
        debianLocalRepoConfKeys ==
            << "debianTrivialLayout", "primaryKeyPairRef" >>
        dockerLocalRepoConfKeys ==
            << "dockerApiVersion", "maxUniqueTags" >>
        LocalPkgTypeKeys ==
            CASE pkgType \in {"maven", "gradle"} -> mavenGradleLocalRepoConfKeys
              [] pkgType \in {"rpm"} -> rpmLocalRepoConfKeys
              [] pkgType \in {"nuget"} -> nugetLocalRepoConfKeys
              [] pkgType \in {"debian"} -> debianLocalRepoConfKeys
              [] pkgType \in {"docker"} -> dockerLocalRepoConfKeys
              [] OTHER -> <<>>
    IN
        GetSuggestsFromKeys(<<SaveAndExit>> \o baseLocalRepoConfKeys \o LocalPkgTypeKeys,
                            optionalSuggestsMap)

getRemoteRepoConfKeys(pkgType, templateType) ==
    LET
        baseRemoteRepoConfKeys ==
            << "username", "password", "proxy", "description", "notes",
               "includesPattern", "excludesPattern", "repoLayoutRef", "projectKey",
               "environment", "hardFail", "offline", "blackedOut", "xrayIndex",
               "storeArtifactsLocally", "socketTimeoutMillis", "localAddress",
               "retrievalCachePeriodSecs", "failedRetrievalCachePeriodSecs",
               "missedRetrievalCachePeriodSecs", "unusedArtifactsCleanupEnabled",
               "unusedArtifactsCleanupPeriodHours", "assumedOfflinePeriodSecs",
               "shareConfiguration", "synchronizeProperties",
               "blockMismatchingMimeTypes", "propertySets", "allowAnyHostAuth",
               "enableCookieManagement", "bypassHeadRequests",
               "clientTlsCertificate", "downloadRedirect", "blockPushingSchema1",
               "contentSynchronisation" >>
        mavenGradleRemoteRepoConfKeys ==
            << "fetchJarsEagerly", "fetchSourcesEagerly",
               "remoteRepoChecksumPolicyType", "handleReleases", "handleSnapshots",
               "suppressPomConsistencyChecks", "rejectInvalidJars" >>
        cocoapodsRemoteRepoConfKeys ==
            << "podsSpecsRepoUrl" >>
        opkgRemoteRepoConfKeys ==
            << "listRemoteFolderItems" >>
        rpmRemoteRepoConfKeys ==
            << "listRemoteFolderItems" >>
        nugetRemoteRepoConfKeys ==
            << "feedContextPath", "downloadContextPath", "v3FeedUrl",
               "forceNugetAuthentication" >>
        gemsRemoteRepoConfKeys ==
            << "listRemoteFolderItems" >>
        npmRemoteRepoConfKeys ==
            << "listRemoteFolderItems" >>
        bowerRemoteRepoConfKeys ==
            << "bowerRegistryUrl" >>
        debianRemoteRepoConfKeys ==
            << "listRemoteFolderItems" >>
        composerRemoteRepoConfKeys ==
            << "composerRegistryUrl" >>
        pypiRemoteRepoConfKeys ==
            << "pyPIRegistryUrl", "listRemoteFolderItems" >>
        dockerRemoteRepoConfKeys ==
            << "externalDependenciesEnabled", "externalDependenciesPatterns",
               "enableTokenAuthentication" >>
        gitlfsRemoteRepoConfKeys ==
            << "listRemoteFolderItems" >>
        vcsRemoteRepoConfKeys ==
            << "vcsGitProvider", "vcsType", "maxUniqueSnapshots", "vcsGitDownloadUrl",
               "listRemoteFolderItems" >>
        RemotePkgTypeKeys ==
            CASE pkgType \in {"maven", "gradle"} -> mavenGradleRemoteRepoConfKeys
              [] pkgType \in {"cocoapods"} -> cocoapodsRemoteRepoConfKeys
              [] pkgType \in {"opkg"} -> opkgRemoteRepoConfKeys
              [] pkgType \in {"rpm"} -> rpmRemoteRepoConfKeys
              [] pkgType \in {"nuget"} -> nugetRemoteRepoConfKeys
              [] pkgType \in {"gems"} -> gemsRemoteRepoConfKeys
              [] pkgType \in {"npm"} -> npmRemoteRepoConfKeys
              [] pkgType \in {"bower"} -> bowerRemoteRepoConfKeys
              [] pkgType \in {"debian"} -> debianRemoteRepoConfKeys
              [] pkgType \in {"composer"} -> composerRemoteRepoConfKeys
              [] pkgType \in {"pypi"} -> pypiRemoteRepoConfKeys
              [] pkgType \in {"docker"} -> dockerRemoteRepoConfKeys
              [] pkgType \in {"gitlfs"} -> gitlfsRemoteRepoConfKeys
              [] pkgType \in {"vcs"} -> vcsRemoteRepoConfKeys
              [] OTHER -> <<>>
    IN
        GetSuggestsFromKeys(<<SaveAndExit>> \o (IF templateType = <<Update>> THEN <<Url>> ELSE <<>>)
                               \o baseRemoteRepoConfKeys \o RemotePkgTypeKeys,
                            optionalSuggestsMap)

getVirtualRepoConfKeys(pkgType) ==
    LET
        baseVirtualRepoConfKeys ==
            << "repositories", "description", "notes", "includesPattern",
               "excludesPattern", "repoLayoutRef", "projectKey", "environment",
               "artifactoryRequestsCanRetrieveRemoteArtifacts",
               "defaultDeploymentRepo", "optionalIndexCompressionFormats",
               "primaryKeyPairRef" >>
        mavenGradleVirtualRepoConfKeys ==
            << "forceMavenAuthentication", "pomRepositoryReferencesCleanupPolicy",
               "keyPair" >>
        nugetVirtualRepoConfKeys ==
            << "forceNugetAuthentication" >>
        npmVirtualRepoConfKeys ==
            << "externalDependenciesEnabled", "externalDependenciesPatterns",
               "externalDependenciesRemoteRepo" >>
        bowerVirtualRepoConfKeys ==
            << "externalDependenciesEnabled", "externalDependenciesPatterns",
               "externalDependenciesRemoteRepo" >>
        debianVirtualRepoConfKeys ==
            << "debianTrivialLayout" >>
        goVirtualRepoConfKeys ==
            << "externalDependenciesEnabled", "externalDependenciesPatterns" >>
        VirtualPkgTypeKeys ==
            CASE pkgType \in {"maven", "gradle"} -> mavenGradleVirtualRepoConfKeys
              [] pkgType \in {"nuget"} -> nugetVirtualRepoConfKeys
              [] pkgType \in {"npm"} -> npmVirtualRepoConfKeys
              [] pkgType \in {"bower"} -> bowerVirtualRepoConfKeys
              [] pkgType \in {"debian"} -> debianVirtualRepoConfKeys
              [] pkgType \in {"go"} -> goVirtualRepoConfKeys
              [] OTHER -> <<>>
    IN
        GetSuggestsFromKeys(<<SaveAndExit>> \o baseVirtualRepoConfKeys
                               \o VirtualPkgTypeKeys,
                            optionalSuggestsMap)

(***************************************************************************)
(* pkgTypeCallback, lines 552-577.                                         *)
(***************************************************************************)
\* Fault: templateType is left in the answers map.
pkgTypeCallback_KeepTemplateType(iq, pkgType) ==
    LET Sprint(v) == IF v.isString THEN v.chars ELSE <<"%v">>
        done(suggests) == Returns(Questionnaire(iq.AnswersMap, suggests), "nil", <<>>)
    IN  IF Rclass \notin DOMAIN iq.AnswersMap
        THEN Returns(iq, "rclass is missing in configuration map", <<>>)
        ELSE LET rclass == iq.AnswersMap[Rclass]
             IN  IF rclass = Word(Local)
                 THEN done(getLocalRepoConfKeys(pkgType))
                 ELSE IF rclass = Word(Remote)
                 THEN IF TemplateType \notin DOMAIN iq.AnswersMap
                      THEN Returns(iq, "package type is missing in configuration map", <<>>)
                      ELSE done(getRemoteRepoConfKeys(pkgType,
                                                      Sprint(iq.AnswersMap[TemplateType])))
                 ELSE IF rclass = Word(Virtual)
                 THEN done(getVirtualRepoConfKeys(pkgType))
                 ELSE IF rclass = Word(Federated)
                 THEN done(getLocalRepoConfKeys(pkgType))
                 ELSE Returns(iq, "unsupported rclass was configured", <<>>)

\* Sprint is fmt.Sprint of a value of the answers map, MapDelete is
\* delete(m, k); done is lines 573-576: the suggestions are set and
\* templateType is deleted.
pkgTypeCallback(iq, pkgType) ==
    LET Sprint(v) == IF v.isString THEN v.chars ELSE <<"%v">>
        MapDelete(m, k) == [x \in DOMAIN m \ {k} |-> m[x]]
        done(suggests) ==
            Returns(Questionnaire(MapDelete(iq.AnswersMap, TemplateType), suggests), "nil", <<>>)
    IN  IF Rclass \notin DOMAIN iq.AnswersMap
        THEN Returns(iq, "rclass is missing in configuration map", <<>>)
        ELSE LET rclass == iq.AnswersMap[Rclass]
             IN  IF rclass = Word(Local)
                 THEN done(getLocalRepoConfKeys(pkgType))
                 ELSE IF rclass = Word(Remote)
                 THEN IF TemplateType \notin DOMAIN iq.AnswersMap
                      THEN Returns(iq, "package type is missing in configuration map", <<>>)
                      ELSE done(getRemoteRepoConfKeys(pkgType,
                                                      Sprint(iq.AnswersMap[TemplateType])))
                 ELSE IF rclass = Word(Virtual)
                 THEN done(getVirtualRepoConfKeys(pkgType))
                 ELSE IF rclass = Word(Federated)
                 THEN done(getLocalRepoConfKeys(pkgType))
                 ELSE Returns(iq, "unsupported rclass was configured", <<>>)

(***************************************************************************)
(* iq.AskQuestion for the questions of this command: the answer is written *)
(* under the question's MapKey by its Writer (ioutils.WriteStringAnswer),  *)
(* then the question's Callback is called with the answer, and its error   *)
(* is the error of AskQuestion.                                            *)
(***************************************************************************)
\* One question and the answer given to it.
Asked(question, answer) == [question |-> question, answer |-> answer]

\* ioutils.WriteStringAnswer.
WriteStringAnswer(iq, mapKey, value) == [iq EXCEPT !.AnswersMap = MapSet(@, mapKey, value)]

(***************************************************************************)
(* rclassCallback, lines 515-550.  urlAnswer and pkgTypeAnswer are what    *)
(* the user answers if the questions are asked.                            *)
(***************************************************************************)
\* The package types offered for a repository class.
PkgTypesOf(rclass) ==
    LET
        commonPkgTypes ==
            << "maven", "gradle", "ivy", "sbt", "helm", "rpm", "nuget", "cran",
               "gems", "npm", "bower", "debian", "pypi", "docker", "gitlfs", "go",
               "conan", "chef", "puppet", "alpine", "generic" >>
        localRepoAdditionalPkgTypes ==
            << "cocoapods", "opkg", "composer", "vagrant", "yum" >>
        remoteRepoAdditionalPkgTypes ==
            << "cocoapods", "opkg", "composer", "conda", "p2", "vcs", "yum" >>
        virtualRepoAdditionalPkgTypes ==
            << "conda", "p2", "yum" >>
        federatedRepoAdditionalPkgTypes ==
            << "vagrant", "opkg", "conda", "composer", "cocoapods" >>
    IN
        commonPkgTypes \o
           (CASE rclass = Remote    -> remoteRepoAdditionalPkgTypes
              [] rclass = Local     -> localRepoAdditionalPkgTypes
              [] rclass = Virtual   -> virtualRepoAdditionalPkgTypes
              [] rclass = Federated -> federatedRepoAdditionalPkgTypes
              [] OTHER              -> <<>>)

\* Fault: the url question is asked for an update template as well.
rclassCallback_UrlForUpdate(iq, rclass, urlAnswer, pkgTypeAnswer) ==
    LET AskMandatoryUrl(i, answer) ==
            Returns(WriteStringAnswer(i, Url, Str(answer)), "nil",
                    <<Asked(MandatoryUrl, answer)>>)
        AskPkgType(i, answer) ==
            LET r == pkgTypeCallback(WriteStringAnswer(i, PackageType, Word(answer)), answer)
            IN  Returns(r.iq, r.err, <<Asked(PackageType, answer)>>)
    IN  IF rclass = Remote
        THEN IF TemplateType \notin DOMAIN iq.AnswersMap
             THEN Returns(iq, "package type is missing in configuration map", <<>>)
             ELSE IF iq.AnswersMap[TemplateType] \in {Word(Create), Word(Update)}
             THEN LET u == AskMandatoryUrl(iq, urlAnswer)
                      q == AskPkgType(u.iq, pkgTypeAnswer)
                  IN  IF u.err # "nil" THEN u ELSE Returns(q.iq, q.err, u.asked \o q.asked)
             ELSE AskPkgType(iq, pkgTypeAnswer)
        ELSE IF rclass \in {Local, Virtual, Federated}
        THEN AskPkgType(iq, pkgTypeAnswer)
        ELSE Returns(iq, "unsupported rclass", <<>>)

\* AskMandatoryUrl is questionMap[MandatoryUrl]: written under url, no
\* callback.  AskPkgType is the pkgTypeQuestion of lines 536-548: written
\* under packageType, then pkgTypeCallback.
rclassCallback(iq, rclass, urlAnswer, pkgTypeAnswer) ==
    LET AskMandatoryUrl(i, answer) ==
            Returns(WriteStringAnswer(i, Url, Str(answer)), "nil",
                    <<Asked(MandatoryUrl, answer)>>)
        AskPkgType(i, answer) ==
            LET r == pkgTypeCallback(WriteStringAnswer(i, PackageType, Word(answer)), answer)
            IN  Returns(r.iq, r.err, <<Asked(PackageType, answer)>>)
    IN  IF rclass = Remote
        THEN IF TemplateType \notin DOMAIN iq.AnswersMap
             THEN Returns(iq, "package type is missing in configuration map", <<>>)
             ELSE IF iq.AnswersMap[TemplateType] = Word(Create)
             THEN LET u == AskMandatoryUrl(iq, urlAnswer)
                      q == AskPkgType(u.iq, pkgTypeAnswer)
                  IN  IF u.err # "nil" THEN u ELSE Returns(q.iq, q.err, u.asked \o q.asked)
             ELSE AskPkgType(iq, pkgTypeAnswer)
        ELSE IF rclass \in {Local, Virtual, Federated}
        THEN AskPkgType(iq, pkgTypeAnswer)
        ELSE Returns(iq, "unsupported rclass", <<>>)

(***************************************************************************)
(* projectKeyCallback, lines 580-596.                                      *)
(***************************************************************************)
\* Fault: the prefix is added without looking at the key.
projectKeyCallback_AlwaysPrefix(iq, projectKey) ==
    IF Key \notin DOMAIN iq.AnswersMap
    THEN Returns(iq, "repository key is missing in configuration map", <<>>)
    ELSE IF ~iq.AnswersMap[Key].isString
    THEN Returns(iq, "the value for the repository key is not a string type", <<>>)
    ELSE Returns([iq EXCEPT !.AnswersMap =
                     MapSet(@, Key, Str(projectKey \o <<"-">> \o iq.AnswersMap[Key].chars))],
                 "nil", <<>>)

\* HasPrefix is strings.HasPrefix(s, prefix).
projectKeyCallback(iq, projectKey) ==
    IF Key \notin DOMAIN iq.AnswersMap
    THEN Returns(iq, "repository key is missing in configuration map", <<>>)
    ELSE LET HasPrefix(s, prefix) ==
                 /\ Len(s) >= Len(prefix)
                 /\ \A i \in 1..Len(prefix) : s[i] = prefix[i]
             requiredProjectPrefix == projectKey \o <<"-">>
             currentRepoKey == iq.AnswersMap[Key]
         IN  IF ~currentRepoKey.isString
             THEN Returns(iq, "the value for the repository key is not a string type", <<>>)
             ELSE IF ~HasPrefix(currentRepoKey.chars, requiredProjectPrefix)
             THEN Returns([iq EXCEPT !.AnswersMap =
                              MapSet(@, Key, Str(requiredProjectPrefix \o currentRepoKey.chars))],
                          "nil", <<>>)
             ELSE Returns(iq, "nil", <<>>)

\* A callback returned r: the questionnaire is as it left it, and the
\* application is kept: what the callback was called with, the
\* questionnaire before and after, and what it returned.
Applied(callback, arg, r) ==
    /\ answersMap' = r.iq.AnswersMap
    /\ optionalKeysSuggests' = r.iq.OptionalKeysSuggests
    /\ applied' = Append(applied,
                         [ callback |-> callback, arg |-> arg,
                           before |-> Questionnaire(answersMap, optionalKeysSuggests), after |-> r.iq,
                           err |-> r.err, asked |-> r.asked ])
    /\ asked' = asked \o r.asked

\* The project keys a user answers with.
ProjectKeys == SeqsUpTo({"p", "k"}, MaxProjectKeyLen)

ApplyProjectKeyCallback ==
    /\ tpc = "callback"
    /\ Len(applied) < MaxApplications
    /\ \E projectKey \in ProjectKeys :
          Applied("projectKeyCallback", projectKey,
                  projectKeyCallback(Questionnaire(answersMap, optionalKeysSuggests), projectKey))
    /\ UNCHANGED << tpc, template, terr, auditVars >>

(***************************************************************************)
(* projectKeyCallback applied to questionnaires whose answers map has no   *)
(* repository key, a repository key that is not a string, or one that is   *)
(* any short string, next to the project key the question's writer wrote.  *)
(***************************************************************************)
InitProjectKey ==
    /\ AuditIdle
    /\ LET RepoKeyValues ==
               { Str(k) : k \in SeqsUpTo({"p", "-", "k"}, MaxKeyLen) } \cup {NotAString}
           written == MapSet(EmptyMap, ProjectKey, Str(<<"p">>))
       IN  answersMap \in {written} \cup { MapSet(written, Key, v) : v \in RepoKeyValues }
    /\ optionalKeysSuggests = {SaveAndExit, ProjectKey}
    /\ tpc = "callback"
    /\ template = NoTemplate
    /\ terr = "nil"
    /\ asked = <<>>
    /\ applied = <<>>

NextProjectKey == ApplyProjectKeyCallback

SpecProjectKey == InitProjectKey /\ [][NextProjectKey]_vars

(***************************************************************************)
(* pkgTypeCallback and rclassCallback applied on their own.                *)
(***************************************************************************)
\* The package types are of different switch arms, and one that is none;
\* the repository classes are the four, and one that is none.
ApplyPkgTypeCallback ==
    /\ tpc = "callback"
    /\ Len(applied) < MaxApplications
    /\ \E pkgType \in {"maven", "vcs", "generic", "other"} :
          Applied("pkgTypeCallback", pkgType, pkgTypeCallback(Questionnaire(answersMap, optionalKeysSuggests), pkgType))
    /\ UNCHANGED << tpc, template, terr, auditVars >>

ApplyRclassCallback ==
    /\ tpc = "callback"
    /\ Len(applied) < MaxApplications
    /\ \E rclass \in {Local, Remote, Virtual, Federated, "other"}, urlAnswer \in { <<"u">> },
          pkgType \in {"maven", "vcs", "generic", "other"} :
          Applied("rclassCallback", rclass,
                  rclassCallback(Questionnaire(answersMap, optionalKeysSuggests), rclass, urlAnswer, pkgType))
    /\ UNCHANGED << tpc, template, terr, auditVars >>

(***************************************************************************)
(* RepoTemplateCommand.Run, lines 486-509, with the questionnaire's        *)
(* Perform: the mandatory questions templateType, key and rclass in that   *)
(* order, then optional keys until save-and-exit is chosen; the first      *)
(* error of a question ends it.                                            *)
(***************************************************************************)
\* Run returned e.
RunReturns(e) ==
    /\ terr' = e
    /\ tpc' = "returned"

\* Lines 487-494: the path is validated and Perform starts with an empty map.
RunStart ==
    /\ tpc = "idle"
    /\ \E pathOk \in BOOLEAN :
          IF pathOk
          THEN /\ answersMap' = EmptyMap
               /\ tpc' = "templateType"
               /\ UNCHANGED terr
          ELSE /\ RunReturns("invalid template path")
               /\ UNCHANGED answersMap
    /\ UNCHANGED << optionalKeysSuggests, template, asked, applied, auditVars >>

\* questionMap[TemplateType]: one of the two options, no callback.
AskTemplateType ==
    /\ tpc = "templateType"
    /\ \E answer \in {Create, Update} :
          /\ answersMap' = MapSet(answersMap, TemplateType, Word(answer))
          /\ asked' = Append(asked, Asked(TemplateType, answer))
    /\ tpc' = "key"
    /\ UNCHANGED << optionalKeysSuggests, template, terr, applied, auditVars >>

\* questionMap[Key]: a free string, no callback.
AskKey ==
    /\ tpc = "key"
    /\ \E answer \in { <<"k">>, <<"p", "-", "k">> } :
          /\ answersMap' = MapSet(answersMap, Key, Str(answer))
          /\ asked' = Append(asked, Asked(Key, answer))
    /\ tpc' = "rclass"
    /\ UNCHANGED << optionalKeysSuggests, template, terr, applied, auditVars >>

\* questionMap[Rclass]: one of the four options, then rclassCallback.
AskRclass ==
    /\ tpc = "rclass"
    /\ \E answer \in {Local, Remote, Virtual, Federated}, urlAnswer \in { <<"u">> } :
       \E pkgType \in Range(PkgTypesOf(answer)) :
          LET written == WriteStringAnswer(Questionnaire(answersMap, optionalKeysSuggests), Rclass, Word(answer))
              r == rclassCallback(written, answer, urlAnswer, pkgType)
          IN  /\ answersMap' = r.iq.AnswersMap
              /\ optionalKeysSuggests' = r.iq.OptionalKeysSuggests
              /\ asked' = asked \o <<Asked(Rclass, answer)>> \o r.asked
              /\ IF r.err = "nil"
                 THEN tpc' = "optional" /\ UNCHANGED terr
                 ELSE RunReturns(r.err)
    /\ UNCHANGED << template, applied, auditVars >>

\* The optional keys answered so far.
OptionalAnswered ==
    Cardinality({ n \in 1..Len(asked) :
                     asked[n].question = "optionalKey" /\ asked[n].answer # SaveAndExit })

\* contentSynchronisationCallBack, lines 675-698: three more answers are
\* asked for and the comma separated list is written.
contentSynchronisationCallBack(iq, answer) ==
    Returns([iq EXCEPT !.AnswersMap =
                MapSet(@, "contentSynchronisation",
                       Str(answer \o <<",", "true", ",", "true", ",", "true">>))],
            "nil", <<>>)

\* questionMap[ioutils.OptionalKey] with ioutils.OptionalKeyCallback: one of
\* the suggested keys is chosen; save-and-exit ends Perform, any other key
\* has its own question asked, written under the key.  OptionalValues is
\* what the user may answer for a key, OptionalCallback the Callback of the
\* key's question in questionMap.
AskOptionalKey ==
    /\ tpc = "optional"
    /\ LET OptionalValues(key) == IF key = ProjectKey THEN ProjectKeys ELSE { <<"v">> }
           OptionalCallback(key, iq, answer) ==
               IF key = ProjectKey THEN projectKeyCallback(iq, answer)
               ELSE IF key = "contentSynchronisation"
               THEN contentSynchronisationCallBack(iq, answer)
               ELSE Returns(iq, "nil", <<>>)
       IN
       \E key \in optionalKeysSuggests :
          IF key = SaveAndExit
          THEN /\ asked' = Append(asked, Asked("optionalKey", key))
               /\ tpc' = "performed"
               /\ UNCHANGED << answersMap, optionalKeysSuggests, terr >>
          ELSE /\ OptionalAnswered < MaxOptionalAnswers
               /\ \E value \in OptionalValues(key) :
                     LET written == WriteStringAnswer(Questionnaire(answersMap, optionalKeysSuggests), key, Str(value))
                         r == OptionalCallback(key, written, value)
                     IN  /\ answersMap' = r.iq.AnswersMap
                         /\ optionalKeysSuggests' = r.iq.OptionalKeysSuggests
                         /\ asked' = asked \o <<Asked("optionalKey", key), Asked(key, value)>>
                         /\ IF r.err = "nil"
                            THEN UNCHANGED << tpc, terr >>
                            ELSE RunReturns(r.err)
    /\ UNCHANGED << template, applied, auditVars >>

\* Lines 499-508: the answers map is marshalled and written to the path.
WriteTemplate ==
    /\ tpc = "performed"
    /\ \E marshalOk, writeOk \in BOOLEAN :
          IF marshalOk /\ writeOk
          THEN /\ template' = [written |-> TRUE, content |-> answersMap]
               /\ RunReturns("nil")
          ELSE /\ RunReturns(IF marshalOk THEN "write failed" ELSE "marshal failed")
               /\ UNCHANGED template
    /\ UNCHANGED << answersMap, optionalKeysSuggests, asked, applied, auditVars >>

(***************************************************************************)
(* The repository-template command run from its start, and the two         *)
(* callbacks applied to questionnaires whose answers map has a repository  *)
(* key, any template type or none, and any repository class or none.       *)
(***************************************************************************)
InitTemplate ==
    /\ AuditIdle
    /\ \/ TemplateIdle
       \/ /\ LET withKey == MapSet(EmptyMap, Key, Str(<<"k">>))
                 withType == {withKey} \cup { MapSet(withKey, TemplateType, Word(t)) :
                                                 t \in {Create, Update} }
             IN  answersMap \in withType \cup
                                   { MapSet(m, Rclass, Word(c)) :
                                        m \in withType,
                                        c \in {Local, Remote, Virtual, Federated, "other"} }
          /\ optionalKeysSuggests \in { {}, {SaveAndExit, Url} }
          /\ tpc = "callback"
          /\ template = NoTemplate
          /\ terr = "nil"
          /\ asked = <<>>
          /\ applied = <<>>

NextTemplate ==
    \/ RunStart
    \/ AskTemplateType
    \/ AskKey
    \/ AskRclass
    \/ AskOptionalKey
    \/ WriteTemplate
    \/ ApplyPkgTypeCallback
    \/ ApplyRclassCallback

SpecTemplate == InitTemplate /\ [][NextTemplate]_vars

(***************************************************************************)
(* Properties of runScaScan.                                               *)
(***************************************************************************)
Returned == pc = "done"

Failed(i) == outcomes[i] # NoError

\* The units among the first n that executeScaScan returned no error for.
RECURSIVE SucceededScans(_)
SucceededScans(n) ==
    IF n = 0 THEN <<>>
    ELSE SucceededScans(n - 1) \o (IF Failed(n) THEN <<>> ELSE <<scans[n]>>)

\* The messages of the units among the first n that failed.
RECURSIVE FailureMessages(_)
FailureMessages(n) ==
    IF n = 0 THEN <<>>
    ELSE FailureMessages(n - 1)
         \o (IF Failed(n) THEN <<AuditFailed(scans[n].WorkingDirectory, outcomes[n])>> ELSE <<>>)

InResults(scan) ==
    \E k \in 1..Len(results) :
       /\ results[k].WorkingDirectory = scan.WorkingDirectory
       /\ results[k].Technology = scan.Technology

\* C1: when runScaScan has returned and the final chdir back did not fail,
\* the process is in the directory it was in when runScaScan was called,
\* however many units were scheduled and whichever of them failed.
C1_WorkingDirRestored ==
    (Returned /\ ~restoreFailed) => cwd = InvocationDir

\* Both units failed, the first one after the directory had been changed.
C1_Witness ==
    /\ Returned
    /\ ~restoreFailed
    /\ Len(outcomes) = 2
    /\ outcomes[1].kind = "treeBuild"
    /\ Failed(2)
    /\ cwd = InvocationDir

C3_ResultsAreSucceededScans ==
    /\ results = resultsAtCall \o SucceededScans(Len(outcomes))
    /\ \A i \in 1..Len(outcomes) : Failed(i) => ~InResults(scans[i])

\* The first unit failed, the second succeeded and is the one added.
C3_Witness ==
    /\ Returned
    /\ Len(outcomes) = 2
    /\ Failed(1)
    /\ ~Failed(2)
    /\ results = <<PriorScan, scans[2]>>

C5_TreeBuildErrorNamesUnit ==
    \A b \in 1..Len(builds) :
       (builds[b].outcome.failed /\ Len(outcomes) >= builds[b].idx) =>
          LET scan == scans[builds[b].idx]
          IN  /\ ~InResults(scan)
              /\ \E m \in 1..Len(err) :
                    /\ err[m].auditIn = scan.WorkingDirectory
                    /\ err[m].msg.tech = scan.Technology

\* The builder of the second unit failed after the first unit succeeded.
C5_Witness ==
    /\ Returned
    /\ Len(outcomes) = 2
    /\ ~Failed(1)
    /\ \E b \in 1..Len(builds) : builds[b].idx = 2 /\ builds[b].outcome.failed

\* C6 as stated: whenever the builder returned an empty unique-dependency
\* list, with or without an error, the unit fails with the 'no dependencies
\* were found' message.
C6_EmptyListAlwaysNoDeps ==
    \A b \in 1..Len(builds) :
       (Len(builds[b].outcome.uniqueDeps) = 0 /\ Len(outcomes) >= builds[b].idx) =>
          outcomes[builds[b].idx].kind = "noDeps"

\* C6, amended: the unit fails with the 'no dependencies were found'
\* message when the builder returned an empty list and no error; when the
\* builder returned an error, with an empty list or not, the unit fails
\* with the 'failed while building' message naming the technology.  Either
\* failure ends that unit only: the next unit is started.
C6_NoDepsOnlyWithoutError ==
    /\ \A b \in 1..Len(builds) :
          Len(outcomes) >= builds[b].idx =>
             LET o == builds[b].outcome
                 e == outcomes[builds[b].idx]
             IN  /\ (~o.failed /\ Len(o.uniqueDeps) = 0) => e.kind = "noDeps"
                 /\ o.failed =>
                       (e.kind = "treeBuild" /\ e.tech = scans[builds[b].idx].Technology)
                 /\ (o.failed \/ Len(o.uniqueDeps) = 0) => ~InResults(scans[builds[b].idx])
    /\ (Returned /\ Len(scans) > 0) => Len(started) = Len(scans)

\* The first unit's builder returned an empty list and no error; the unit
\* failed with the 'no dependencies' message and the second unit was started.
C6_Witness ==
    /\ Len(started) = 2
    /\ \E b \in 1..Len(builds) :
          /\ builds[b].idx = 1
          /\ ~builds[b].outcome.failed
          /\ Len(builds[b].outcome.uniqueDeps) = 0
    /\ outcomes[1].kind = "noDeps"

(***************************************************************************)
(* Properties of getScaScansToPreform.                                     *)
(***************************************************************************)
Scheduled == pc = "scheduled"

\* The indices of the units scheduled for a technology in a working directory.
UnitsFor(tech, wd) ==
    { i \in 1..Len(scans) : scans[i].Technology = tech /\ scans[i].WorkingDirectory = wd }

\* The requested directories detection succeeded for.
DetectedDirs == { d \in Range(requestedDirectories) : ~detector[d].failed }

\* C7 as stated: every technology the caller requested that detection
\* returns with no working directory for a requested directory has a scan
\* unit rooted at that requested directory, whatever the technology.
C7_RequestedTechNeverDropped ==
    Scheduled =>
       \A d \in DetectedDirs :
          \A t \in DOMAIN detector[d].techs :
             (t \in params.technologies /\ DOMAIN detector[d].techs[t] = {}) =>
                UnitsFor(t, d) # {}

\* C8 as stated: a technology detection returns with no working directory
\* has exactly one scan unit, rooted at the requested directory and with
\* empty descriptors.
C8_ExactlyOneUnitForUndetectedTech ==
    Scheduled =>
       \A d \in DetectedDirs :
          \A t \in DOMAIN detector[d].techs :
             DOMAIN detector[d].techs[t] = {} =>
                /\ Cardinality(UnitsFor(t, d)) = 1
                /\ \A i \in UnitsFor(t, d) : scans[i].Descriptors = <<>>

\* C9: no scheduled unit has technology Dotnet; and where detection reports
\* NuGet and Dotnet for the same working directory, one unit is scheduled
\* for the two of them, the NuGet one, which is the only unit of that
\* directory when nothing else was detected there.
C9_DotnetSuppressed ==
    /\ \A i \in 1..Len(scans) : scans[i].Technology # Dotnet
    /\ Scheduled =>
          \A d \in DetectedDirs :
             LET r == detector[d].techs
             IN  ({Nuget, Dotnet} \subseteq DOMAIN r) =>
                    \A wd \in DOMAIN r[Nuget] \cap DOMAIN r[Dotnet] :
                       /\ Cardinality(UnitsFor(Nuget, wd)) = 1
                       /\ UnitsFor(Dotnet, wd) = {}
                       /\ (DOMAIN r = {Nuget, Dotnet}) =>
                             Cardinality({ i \in 1..Len(scans) : scans[i].WorkingDirectory = wd }) = 1

\* Detection reported NuGet and Dotnet, and nothing else, for one directory.
C9_Witness ==
    /\ Scheduled
    /\ \E d \in DetectedDirs :
          /\ DOMAIN detector[d].techs = {Nuget, Dotnet}
          /\ DOMAIN detector[d].techs[Nuget] = {d}
          /\ DOMAIN detector[d].techs[Dotnet] = {d}
          /\ Cardinality({ i \in 1..Len(scans) : scans[i].WorkingDirectory = d }) = 1

\* A unit is accounted for by the detection result of requested directory d.
Accounted(scan, d) ==
    LET r == detector[d].techs
        t == scan.Technology
    IN  /\ t \in DOMAIN r
        /\ t # Dotnet
        /\ IF DOMAIN r[t] = {}
           THEN scan = NewScan(d, t, <<>>)
           ELSE /\ scan.WorkingDirectory \in DOMAIN r[t]
                /\ scan = NewScan(scan.WorkingDirectory, t, r[t][scan.WorkingDirectory])

\* C10: for every requested directory detection succeeded for, every
\* (technology, working directory) pair of the result with a technology
\* other than Dotnet has exactly one scan unit, carrying the pair's
\* descriptors unchanged; and every scheduled unit is the unit of such a
\* pair or the unit of a technology detected without working directory.
C10_OneUnitPerDetectedPair ==
    Scheduled =>
       /\ \A d \in DetectedDirs :
             \A t \in DOMAIN detector[d].techs \ {Dotnet} :
                \A wd \in DOMAIN detector[d].techs[t] :
                   /\ Cardinality(UnitsFor(t, wd)) = 1
                   /\ \A i \in UnitsFor(t, wd) :
                         scans[i] = NewScan(wd, t, detector[d].techs[t][wd])
       /\ \A i \in 1..Len(scans) : \E d \in DetectedDirs : Accounted(scans[i], d)

\* Requested directory /w/a, detection {npm: {/w/a: [d2, d1]}}: one unit.
C10_Witness ==
    /\ Scheduled
    /\ requestedDirectories = << <<"/", "w", "a">> >>
    /\ ~detector[<<"/", "w", "a">>].failed
    /\ DOMAIN detector[<<"/", "w", "a">>].techs = {Npm}
    /\ DOMAIN detector[<<"/", "w", "a">>].techs[Npm] = { <<"/", "w", "a">> }
    /\ scans = << NewScan(<<"/", "w", "a">>, Npm, <<"d2", "d1">>) >>

(***************************************************************************)
(* Properties of createFlatTree.                                           *)
(***************************************************************************)
\* createFlatTree was called by the last GetTechDependencyTree and its tree
\* is the flat tree of the unit being scanned.
Flattened == pc = "scan"

\* The list the flat tree of the current unit was made from.
FlattenedDeps == builds[Len(builds)].outcome.uniqueDeps

\* C11 as stated: whatever list createFlatTree is handed, with or without
\* repeated identifiers, no two children of the flattened root have the
\* same Id, and the number of children is the number of distinct
\* identifiers of the list.
C11_FlatTreeChildrenDistinct ==
    Flattened =>
       LET children == unit.flatTree.Nodes
       IN  /\ \A i, j \in 1..Len(children) : i # j => children[i].Id # children[j].Id
           /\ Len(children) = Cardinality(Range(FlattenedDeps))

\* C12: the flat tree is a node "root" whose children are leaves, one per
\* entry of the list and in the order of the list; the tree is a function
\* of the list alone.
C12_FlatTreeLeavesInListOrder ==
    Flattened =>
       /\ unit.flatTree.Id = "root"
       /\ Len(unit.flatTree.Nodes) = Len(FlattenedDeps)
       /\ \A i \in 1..Len(FlattenedDeps) :
             unit.flatTree.Nodes[i] = Node(FlattenedDeps[i], <<>>)

\* The list [a, b] gave root with the children a then b.
C12_Witness ==
    /\ Flattened
    /\ FlattenedDeps = <<"a", "b">>
    /\ unit.flatTree = Node("root", << Node("a", <<>>), Node("b", <<>>) >>)

(***************************************************************************)
(* Properties of executeScaScan and GetTechDependencyTree.                 *)
(***************************************************************************)
\* The directory of unit i as seen from the directory runScaScan captured.
UnitDir(i) == ResolvePath(currentWorkingDir, scans[i].WorkingDirectory)

\* C13 as stated: whenever the resolver or the tree builder of a unit is
\* invoked, at whatever position of the unit and whatever the earlier units
\* returned, the process is in the unit's directory as seen from the
\* directory captured before the loop, for absolute and for relative
\* working directories alike.
C13_UnitRunsInItsDirectory ==
    /\ \A r \in 1..Len(resolves) : resolves[r].cwd = UnitDir(resolves[r].idx)
    /\ \A b \in 1..Len(builds) : builds[b].cwd = UnitDir(builds[b].idx)

(***************************************************************************)
(* Properties of SetResolutionRepoIfExists within a run.  A record of      *)
(* resolves is one call: the unit, its technology, the server details and  *)
(* dependency repository of params before it, and its result.              *)
(***************************************************************************)
\* The resolver call made for unit i, if any.
ResolveOf(i) == { r \in 1..Len(resolves) : resolves[r].idx = i }

\* The tree builder call made for unit i, if any.
BuildOf(i) == { b \in 1..Len(builds) : builds[b].idx = i }

\* The call found params without dependency repository and the lookup enabled.
LookupEnabled(call) == call.before.depsRepo = NoRepo /\ ~params.ignoreConfigFile

\* The project type whose file the resolver is to use for a technology:
\* dotnet for NuGet when there is no nuget.yaml, the technology's own otherwise.
ConfOf(tech) ==
    IF tech = Nuget /\ confFiles[techType(Nuget)].status = "absent"
    THEN techType(Dotnet)
    ELSE techType(tech)

Unmodified(call) ==
    /\ call.result.serverDetails = call.before.serverDetails
    /\ call.result.depsRepo = call.before.depsRepo

\* C14 as stated: what the resolver wrote to params during one unit does
\* not reach a later unit: the builder of every unit gets the dependency
\* repository that the unit's own configuration file, or its absence, gives
\* with the params the caller of runScaScan had set, never the repository
\* the resolver wrote during an earlier unit.
C14_ResolverWritesConfinedToUnit ==
    /\ \A b \in 1..Len(builds) :
          builds[b].input.depsRepo =
             SetResolutionRepoIfExists(
                [params EXCEPT !.serverDetails = resolves[1].before.serverDetails,
                               !.depsRepo = resolves[1].before.depsRepo],
                scans[builds[b].idx].Technology, confFiles).depsRepo

\* C15 as stated: when the resolver read a configuration file without error
\* during a unit, the builder of that unit gets the server details and the
\* target repository of that file, whatever the technology.
C15_BuilderGetsConfiguredDetails ==
    \A b \in 1..Len(builds) : \A r \in ResolveOf(builds[b].idx) :
       (resolves[r].result.cause = "nil" /\ resolves[r].result.read # <<>>) =>
          LET conf == confFiles[resolves[r].result.read[1]]
          IN  /\ builds[b].input.serverDetails = conf.serverDetails
              /\ builds[b].input.depsRepo = conf.targetRepo

\* The file the resolver is to use for a technology was found and could not
\* be searched for, read, or asked for its server details.
BrokenConf(tech) == confFiles[ConfOf(tech)].status \in {"lookupErr", "readErr", "detailsErr"}

\* C16: when the lookup is enabled and the configuration file of the unit's
\* technology cannot be searched for, read or asked for its server details,
\* the resolver returns an error and leaves the server details and the
\* dependency repository of params as they were, no tree builder is called
\* for the unit, the unit fails with the tree-building message, is not in
\* results and has its message in the aggregate error; the units after it
\* are started all the same.
C16_BrokenConfFailsUnit ==
    /\ \A r \in 1..Len(resolves) :
          LET call == resolves[r]
              i == resolves[r].idx
          IN  (LookupEnabled(call) /\ BrokenConf(call.tech)) =>
                 /\ call.result.cause # "nil"
                 /\ Unmodified(call)
                 /\ BuildOf(i) = {}
                 /\ Len(outcomes) >= i
                 /\ outcomes[i] = TreeBuildError(call.tech, call.result.cause)
                 /\ ~InResults(scans[i])
                 /\ \E m \in 1..Len(err) :
                       err[m] = AuditFailed(scans[i].WorkingDirectory, outcomes[i])
    /\ (Returned /\ Len(scans) > 0) => Len(started) = Len(scans)

\* The first unit's file had no usable server details; the second unit was
\* started after the first one failed.
C16_Witness ==
    /\ Len(started) = 2
    /\ Len(resolves) >= 1
    /\ resolves[1].idx = 1
    /\ LookupEnabled(resolves[1])
    /\ confFiles[ConfOf(resolves[1].tech)].status = "detailsErr"
    /\ outcomes[1].kind = "treeBuild"
    /\ params.serverDetails = CliServer
    /\ params.depsRepo = NoRepo

\* C17: when params already holds a dependency repository, or the lookup
\* is disabled, the resolver returns no error, looks up and reads no
\* configuration file, and leaves the server details and the dependency
\* repository of params as they were.
C17_NoOpWhenRepoSetOrLookupDisabled ==
    \A r \in 1..Len(resolves) :
       ~LookupEnabled(resolves[r]) =>
          /\ resolves[r].result.cause = "nil"
          /\ resolves[r].result.lookups = <<>>
          /\ resolves[r].result.read = <<>>
          /\ Unmodified(resolves[r])

\* The lookup was disabled while a usable file of the technology existed,
\* and the builder was called without repository.
C17_Witness ==
    /\ params.ignoreConfigFile
    /\ Len(resolves) = 1
    /\ confFiles[techType(resolves[1].tech)].status = "ok"
    /\ Len(builds) = 1
    /\ builds[1].input.depsRepo = NoRepo
    /\ builds[1].input.serverDetails = CliServer

\* C18: when the lookup is made and finds no file for the unit's technology
\* (for NuGet: neither nuget.yaml nor dotnet.yaml), the resolver returns no
\* error, reads nothing and leaves params as it was, and the tree builder
\* of the unit is called, with no dependency repository.
C18_AbsentConfIsNotAnError ==
    \A r \in 1..Len(resolves) :
       LET call == resolves[r]
           i == resolves[r].idx
       IN  (LookupEnabled(call) /\ confFiles[ConfOf(call.tech)].status = "absent") =>
              /\ call.result.cause = "nil"
              /\ call.result.read = <<>>
              /\ Unmodified(call)
              /\ (Len(outcomes) >= i /\ call.tech \in SupportedTechs) => BuildOf(i) # {}
              /\ \A b \in BuildOf(i) : builds[b].input.depsRepo = NoRepo

\* A NuGet unit with neither nuget.yaml nor dotnet.yaml had its builder called.
C18_Witness ==
    \E r \in 1..Len(resolves) :
       /\ resolves[r].tech = Nuget
       /\ LookupEnabled(resolves[r])
       /\ confFiles[techType(Nuget)].status = "absent"
       /\ confFiles[techType(Dotnet)].status = "absent"
       /\ \E b \in BuildOf(resolves[r].idx) : builds[b].input.depsRepo = NoRepo

\* C19: the resolver looks up the file of the unit's technology first; it
\* looks up dotnet.yaml as well exactly when the technology is NuGet and
\* nuget.yaml was not found, and then treats dotnet.yaml as it treats any
\* file it found: a usable one gives params its server details and target
\* repository, a broken one is an error.  No other technology has a
\* second file looked up, and no file but the one found is read.
C19_DotnetConfOnlyForNuget ==
    \A r \in 1..Len(resolves) :
       LET call == resolves[r]
           own == techType(resolves[r].tech)
           dotnet == techType(Dotnet)
           fallsBack == resolves[r].tech = Nuget /\ confFiles[own].status = "absent"
       IN  LookupEnabled(call) =>
              /\ call.result.lookups = IF fallsBack THEN <<own, dotnet>> ELSE <<own>>
              /\ Range(call.result.read) \subseteq {ConfOf(call.tech)}
              /\ (fallsBack /\ confFiles[dotnet].status = "ok") =>
                    /\ call.result.cause = "nil"
                    /\ call.result.read = <<dotnet>>
                    /\ call.result.depsRepo = confFiles[dotnet].targetRepo
                    /\ call.result.serverDetails = confFiles[dotnet].serverDetails
              /\ (fallsBack /\ BrokenConf(call.tech)) =>
                    /\ call.result.cause # "nil"
                    /\ Unmodified(call)

\* A NuGet unit without nuget.yaml got the repository of dotnet.yaml.
C19_Witness ==
    \E r \in 1..Len(resolves) :
       /\ resolves[r].tech = Nuget
       /\ LookupEnabled(resolves[r])
       /\ confFiles[techType(Nuget)].status = "absent"
       /\ confFiles[techType(Dotnet)].status = "ok"
       /\ resolves[r].result.lookups = <<techType(Nuget), techType(Dotnet)>>
       /\ \E b \in BuildOf(resolves[r].idx) :
             builds[b].input.depsRepo = confFiles[techType(Dotnet)].targetRepo

(***************************************************************************)
(* Properties of a failed detection.                                       *)
(***************************************************************************)
\* getScaScansToPreform has returned.
AfterScheduling == pc \in {"scheduled", "loop", "tree", "build", "scan", "done"} /\ requestedDirectories # <<>>

IsUnder(dir, wd) == Len(dir) <= Len(wd) /\ SubSeq(wd, 1, Len(dir)) = dir

\* C20: once scheduling is over, a requested directory whose detection
\* failed has no scan unit, every other requested directory has the units
\* of its detection result (one per technology and working directory, and
\* one in the directory itself for a technology without working
\* directory, Dotnet apart), and the failure is no part of the error: err
\* is nil when scheduling ends and holds, when runScaScan returns, the
\* messages of the failed units and of the restoring chdir and nothing else.
C20_DetectionFailureSkipsDirectory ==
    /\ AfterScheduling =>
          /\ \A d \in Range(requestedDirectories) \ DetectedDirs :
                \A i \in 1..Len(scans) : ~IsUnder(d, scans[i].WorkingDirectory)
          /\ \A d \in DetectedDirs :
                \A t \in DOMAIN detector[d].techs \ {Dotnet} :
                   /\ \A wd \in DOMAIN detector[d].techs[t] : UnitsFor(t, wd) # {}
                   /\ DOMAIN detector[d].techs[t] = {} => UnitsFor(t, d) # {}
    /\ Scheduled => err = <<>>
    /\ (Returned /\ Len(scans) > 0) =>
          Len(err) = Len(FailureMessages(Len(scans))) + (IF restoreFailed THEN 1 ELSE 0)

\* Detection failed for the first of two requested directories; the unit of
\* the second one was scanned and runScaScan returned no error.
C20_Witness ==
    /\ Returned
    /\ Len(requestedDirectories) = 2
    /\ detector[requestedDirectories[1]].failed
    /\ Len(scans) = 1
    /\ scans[1].WorkingDirectory = requestedDirectories[2]
    /\ ~Failed(1)
    /\ err = <<>>

(***************************************************************************)
(* Properties of getRequestedDirectoriesToScan.                            *)
(***************************************************************************)
\* getRequestedDirectoriesToScan has returned.
DirsComputed == requestedDirectories # <<>>

\* The calls of one operation, in the order they were made.
CallsOf(op) == SelectSeq(calls, LAMBDA c : c.op = op)

\* C21: with no working directory given, the requested directories are the
\* captured current directory alone and the mode is recursive; with working
\* directories given they are the given paths, each once however often it
\* was listed, and the mode is not recursive.  Detection is called for the
\* requested directories in order, once each, in that mode.
C21_RequestedDirectories ==
    /\ DirsComputed =>
          IF Len(params.workingDirs) = 0
          THEN requestedDirectories = <<currentWorkingDir>> /\ isRecursive
          ELSE /\ Range(requestedDirectories) = Range(params.workingDirs)
               /\ Len(requestedDirectories) = Cardinality(Range(params.workingDirs))
               /\ ~isRecursive
    /\ Len(CallsOf("detect")) <= Len(requestedDirectories)
    /\ \A k \in 1..Len(CallsOf("detect")) :
          /\ CallsOf("detect")[k].arg.dir = requestedDirectories[k]
          /\ CallsOf("detect")[k].arg.recursive = isRecursive
    /\ Scheduled => Len(CallsOf("detect")) = Len(requestedDirectories)

\* The caller listed the directory a twice; detection was called for it once.
C21_Witness ==
    /\ Scheduled
    /\ params.workingDirs = << <<"a">>, <<"a">> >>
    /\ requestedDirectories = << <<"a">> >>
    /\ ~isRecursive
    /\ Len(CallsOf("detect")) = 1

(***************************************************************************)
(* Properties of a run with nothing to scan.                               *)
(***************************************************************************)
\* C22: when detection is over and has given no scan unit, then and when
\* runScaScan has returned, the error is nil, results is as it was at the
\* call, the process is in the directory it was in, and no call but the
\* detections was made: no chdir, resolver, tree builder or scan backend.
C22_NothingToScanIsNoOp ==
    (pc \in {"scheduled", "done"} /\ DirsComputed /\ Len(scans) = 0) =>
       /\ err = <<>>
       /\ results = resultsAtCall
       /\ cwd = InvocationDir
       /\ \A k \in 1..Len(calls) : calls[k].op = "detect"
       /\ resolves = <<>> /\ builds = <<>> /\ started = <<>>

\* Two directories were detected in, one failed and one had nothing, and
\* runScaScan returned.
C22_Witness ==
    /\ Returned
    /\ Len(requestedDirectories) = 2
    /\ Len(CallsOf("detect")) = 2
    /\ \E d \in Range(requestedDirectories) : detector[d].failed
    /\ \E d \in DetectedDirs : DOMAIN detector[d].techs = {}
    /\ Len(scans) = 0
    /\ err = <<>>
    /\ results = <<PriorScan>>

(***************************************************************************)
(* Properties of the scan of a unit's flat tree.                           *)
(***************************************************************************)
\* The positions in calls of the calls of one operation made for unit i.
CallsFor(op, i) == { k \in 1..Len(calls) : calls[k].op = op /\ calls[k].idx = i }

\* C23: a unit whose scan backend call returned an error fails with the
\* scan-request message naming the unit's technology; the message, with
\* the unit's working directory in front, is in the aggregate error; the
\* unit is not in results, keeps IsMultipleRootProject and XrayResults
\* unset and adds nothing to the applicability-scan dependency list, which
\* has one entry per successful unit; and the later units are started.
C23_BackendErrorFailsUnit ==
    /\ \A k \in 1..Len(calls) :
          (calls[k].op = "scan" /\ calls[k].arg.failed) =>
             LET i == calls[k].idx
             IN  /\ Len(outcomes) >= i
                 /\ outcomes[i] = UnitError("xrayScan", scans[i].Technology, "backend")
                 /\ \E m \in 1..Len(err) :
                       err[m] = AuditFailed(scans[i].WorkingDirectory, outcomes[i])
                 /\ ~InResults(scans[i])
                 /\ scans[i].IsMultipleRootProject = "nil"
                 /\ scans[i].XrayResults = <<>>
    /\ Len(params.dependenciesForApplicabilityScan) = Len(SucceededScans(Len(outcomes)))
    /\ (Returned /\ Len(scans) > 0) => Len(started) = Len(scans)

\* The backend failed for the first unit and the second unit succeeded.
C23_Witness ==
    /\ Returned
    /\ Len(outcomes) = 2
    /\ \E k \in CallsFor("scan", 1) : calls[k].arg.failed
    /\ outcomes[1].kind = "xrayScan"
    /\ ~Failed(2)
    /\ Len(params.dependenciesForApplicabilityScan) = 1

\* The entries of results that this run added.
Added == { k \in 1..Len(results) : k > Len(resultsAtCall) }

\* C24: every unit this run added to results has IsMultipleRootProject
\* set, to true when the tree builder of the unit returned more than one
\* full dependency tree and to false when it returned one.
C24_MultipleRootIffSeveralTrees ==
    /\ \A k \in Added : results[k].IsMultipleRootProject \in {"true", "false"}
    /\ \A i \in 1..Len(outcomes) :
          ~Failed(i) =>
             /\ Cardinality(BuildOf(i)) = 1
             /\ \A b \in BuildOf(i) :
                   \E k \in Added :
                      /\ results[k].WorkingDirectory = scans[i].WorkingDirectory
                      /\ results[k].Technology = scans[i].Technology
                      /\ (results[k].IsMultipleRootProject = "true")
                            <=> (Len(builds[b].outcome.trees) > 1)

\* One unit was built from two trees and one from a single tree.
C24_Witness ==
    /\ Returned
    /\ Len(results) = Len(resultsAtCall) + 2
    /\ \E b \in BuildOf(1) : Len(builds[b].outcome.trees) = 2
    /\ \E b \in BuildOf(2) : Len(builds[b].outcome.trees) = 1
    /\ results[Len(resultsAtCall) + 1].IsMultipleRootProject = "true"
    /\ results[Len(resultsAtCall) + 2].IsMultipleRootProject = "false"

(***************************************************************************)
(* Properties of the impact paths.                                         *)
(***************************************************************************)
\* Every path from the root of a tree to one of its nodes.
RECURSIVE RootPaths(_)
RootPaths(node) ==
    { <<node.Id>> }
    \cup UNION { { <<node.Id>> \o p : p \in RootPaths(node.Nodes[n]) } :
                 n \in 1..Len(node.Nodes) }

\* The paths, over all the trees, that end in a node with the identifier.
PathsTo(id, trees) ==
    { p \in UNION { RootPaths(trees[t]) : t \in 1..Len(trees) } : p[Len(p)] = id }

\* C25: for a unit whose scan succeeded, XrayResults holds one response
\* per response of the scan backend, in the backend's order, each with the
\* backend's findings in their order, none dropped; a finding carries the
\* paths that lead from the root of any full tree of the unit to a node
\* with its identifier, each once, and no path when there is none.
C25_ImpactPathsKeepEveryFinding ==
    \A k \in 1..Len(calls) :
       calls[k].op = "reconcile" =>
          LET stored == scans[calls[k].idx].XrayResults
              sent == calls[k].arg.responses
              trees == calls[k].arg.trees
          IN  /\ Len(stored) = Len(sent)
              /\ \A r \in 1..Len(sent) :
                    /\ Len(stored[r].Vulnerabilities) = Len(sent[r].Vulnerabilities)
                    /\ \A v \in 1..Len(sent[r].Vulnerabilities) :
                          LET finding == stored[r].Vulnerabilities[v]
                          IN  /\ finding.Id = sent[r].Vulnerabilities[v].Id
                              /\ Range(finding.ImpactPaths) = PathsTo(finding.Id, trees)
                              /\ Len(finding.ImpactPaths)
                                    = Cardinality(PathsTo(finding.Id, trees))

\* Two trees, c a grandchild in the first and absent from the second, z in
\* neither, b a child in both.
C25_Witness ==
    /\ Returned
    /\ Len(scans) >= 1
    /\ \E b \in BuildOf(1) : builds[b].outcome.trees = <<Tree1, Tree2>>
    /\ Len(scans[1].XrayResults) = 2
    /\ scans[1].XrayResults[1].Vulnerabilities
          = << [Id |-> "c", ImpactPaths |-> << <<"r1", "a", "c">> >>],
               [Id |-> "z", ImpactPaths |-> <<>>] >>
    /\ scans[1].XrayResults[2].Vulnerabilities
          = << [Id |-> "b", ImpactPaths |-> << <<"r1", "b">>, <<"r2", "b">> >>] >>

(***************************************************************************)
(* Properties of getExcludePattern.                                        *)
(***************************************************************************)
\* The patterns every detection so far was called with are the defaults
\* when the caller gave none and the caller's own, nothing added, when the
\* caller gave some.
ExcludePatternsUsed ==
    \A k \in 1..Len(calls) :
       calls[k].op = "detect" =>
          /\ calls[k].arg.exclude.patterns =
                IF Len(params.exclusions) = 0 THEN DefaultExcludePatterns ELSE params.exclusions
          /\ (calls[k].arg.exclude.patterns = DefaultExcludePatterns)
                <=> (Len(params.exclusions) = 0 \/ params.exclusions = DefaultExcludePatterns)

\* No step changes the caller's exclusion list or DefaultExcludePatterns.
ExcludePatternsKept ==
    /\ params'.exclusions = params.exclusions
    /\ defaultExcludePatterns' = defaultExcludePatterns

\* C26: detection is called with the default patterns exactly when the
\* caller gave no pattern (or gave the very list of the defaults) and with
\* exactly the caller's patterns otherwise; the caller's list and
\* DefaultExcludePatterns are never changed.
C26_ExcludePatterns == [](ExcludePatternsUsed) /\ [][ExcludePatternsKept]_vars

\* Detection was called with the caller's one pattern, itself one of the
\* defaults, and with nothing else.
C26_Witness ==
    /\ Scheduled
    /\ params.exclusions = <<"*.git*">>
    /\ Len(CallsOf("detect")) = 1
    /\ CallsOf("detect")[1].arg.exclude.patterns = <<"*.git*">>
    /\ defaultExcludePatterns = DefaultExcludePatterns

(***************************************************************************)
(* The order of the steps of a scan unit.                                  *)
(***************************************************************************)
\* The steps of one scan unit, in the order executeScaScan takes them.
UnitSteps == <<"chdir", "resolve", "build", "flatten", "scan", "reconcile">>

\* The calls made for unit i, in the order they were made.
UnitCalls(i) == SelectSeq(calls, LAMBDA c : c.idx = i)

\* The step call c of unit i returned without error.
StepSucceeded(c, i) ==
    CASE c.op = "chdir"   -> c.arg.ok
      [] c.op = "resolve" -> \A r \in ResolveOf(i) : resolves[r].result.cause = "nil"
      [] c.op = "build"   -> \A b \in BuildOf(i) : ~builds[b].outcome.failed
      [] c.op = "scan"    -> ~c.arg.failed
      [] OTHER            -> TRUE

\* C27: the calls made for a scan unit are a prefix of: change directory,
\* resolve the repository, build the trees, flatten, scan, reconcile; each
\* of them is made only when the one before returned without error; and
\* every requested directory has been through detection before the first
\* call of any unit.
C27_StepsInOrder ==
    /\ \A i \in 1..Len(scans) :
          LET cs == UnitCalls(i)
          IN  /\ Len(cs) <= Len(UnitSteps)
              /\ \A k \in 1..Len(cs) : cs[k].op = UnitSteps[k]
              /\ \A k \in 2..Len(cs) : StepSucceeded(cs[k - 1], i)
    /\ \A j, k \in 1..Len(calls) :
          calls[j].op = "detect" /\ calls[k].op # "detect" => j < k
    /\ (\E k \in 1..Len(calls) : calls[k].op # "detect")
          => Len(CallsOf("detect")) = Len(requestedDirectories)

\* Two directories went through detection, then the first unit took all
\* six steps and the second stopped at a failed change of directory.
C27_Witness ==
    /\ Returned
    /\ Len(CallsOf("detect")) = 2
    /\ Len(scans) = 2
    /\ [k \in 1..Len(UnitCalls(1)) |-> UnitCalls(1)[k].op] = UnitSteps
    /\ Len(UnitCalls(2)) = 1
    /\ ~UnitCalls(2)[1].arg.ok

(***************************************************************************)
(* When the scan backend is called.                                        *)
(***************************************************************************)
\* Some call of operation op for unit i was made before the k-th call.
CalledBefore(op, i, k) == \E c \in CallsFor(op, i) : c < k

\* C28: the scan backend is called for a unit only after the unit's change
\* of directory succeeded, its resolver returned without error and its
\* tree builder returned without error; the tree it is called with is not
\* nil and has at least one child; it is called at most once for a unit.
C28_BackendOnlyWithDependencies ==
    \A k \in 1..Len(calls) :
       calls[k].op = "scan" =>
          LET i == calls[k].idx
          IN  /\ \E c \in CallsFor("chdir", i) : c < k /\ calls[c].arg.ok
              /\ CalledBefore("resolve", i, k)
              /\ \E r \in ResolveOf(i) : resolves[r].result.cause = "nil"
              /\ CalledBefore("build", i, k)
              /\ \E b \in BuildOf(i) : ~builds[b].outcome.failed
              /\ calls[k].arg.flatTree # NilTree
              /\ Len(calls[k].arg.flatTree.Nodes) >= 1
              /\ CallsFor("scan", i) = {k}

\* The builder of the first unit returned no identifier and the backend
\* was not called for it; the second unit's flat tree of three children
\* was sent to the backend.
C28_Witness ==
    /\ Returned
    /\ Len(scans) = 2
    /\ \E b \in BuildOf(1) : ~builds[b].outcome.failed /\ builds[b].outcome.uniqueDeps = <<>>
    /\ CallsFor("scan", 1) = {}
    /\ \E k \in CallsFor("scan", 2) : Len(calls[k].arg.flatTree.Nodes) = 3

(***************************************************************************)
(* The dependency list for the applicability scan.                         *)
(***************************************************************************)
\* The indices of the units among the first n that succeeded, in order.
RECURSIVE SucceededUnits(_)
SucceededUnits(n) ==
    IF n = 0 THEN <<>>
    ELSE SucceededUnits(n - 1) \o (IF Failed(n) THEN <<>> ELSE <<n>>)

\* The identifiers of the children of the roots of the trees.
ChildrenOfRoots(trees) ==
    UNION { { child.Id : child \in Range(trees[t].Nodes) } : t \in 1..Len(trees) }

\* What unit i is to add to the list: every identifier its builder listed
\* for Pip, and for npm under the third-party flag; the children of the
\* roots of its full trees otherwise.
IdsToAdd(i) ==
    LET o == builds[CHOOSE b \in BuildOf(i) : TRUE].outcome
        tech == scans[i].Technology
    IN  IF tech = Pip \/ (tech = Npm /\ params.thirdPartyApplicabilityScan)
        THEN Range(o.uniqueDeps)
        ELSE ChildrenOfRoots(o.trees)

\* C29: the applicability-scan dependency list is made of one batch per
\* unit that succeeded so far, in schedule order and none for a failed
\* unit; the batch of a unit holds, once each, every identifier of its
\* flattened tree when the technology is Pip, or npm with the third-party
\* flag set, and otherwise the identifiers of the children of the roots of
\* its full dependency trees.
C29_ApplicabilityDependencies ==
    LET succeeded == SucceededUnits(Len(outcomes))
        list == params.dependenciesForApplicabilityScan
    IN  /\ Len(list) = Len(succeeded)
        /\ \A k \in 1..Len(succeeded) :
              /\ DOMAIN list[k] = IdsToAdd(succeeded[k])
              /\ \A id \in DOMAIN list[k] : list[k][id] = 1

\* With the third-party flag set, a failed Pip unit was followed by a NuGet
\* unit whose builder listed three identifiers, and the list holds the one
\* child of the root of the NuGet unit's tree.
C29_Witness ==
    /\ Returned
    /\ params.thirdPartyApplicabilityScan
    /\ Len(outcomes) = 2
    /\ scans[1].Technology = Pip
    /\ Failed(1)
    /\ scans[2].Technology = Nuget
    /\ ~Failed(2)
    /\ \E b \in BuildOf(2) : builds[b].outcome.uniqueDeps = <<"b", "c", "b">>
    /\ params.dependenciesForApplicabilityScan = << [id \in {"b"} |-> 1] >>

(***************************************************************************)
(* The server the scan backend is sent to.                                 *)
(***************************************************************************)
\* The resolver call of unit i put other server details into params.
ResolverReplaced(i) ==
    \E r \in ResolveOf(i) : resolves[r].result.serverDetails # resolves[r].before.serverDetails

\* C30: every scan backend call of a run is given the server details
\* params held when runScaScan was called, which runScaScan read before
\* the first unit; what the resolver of this or an earlier unit put into
\* params since does not reach the backend.
C30_BackendServerFixed ==
    \A k \in 1..Len(calls) :
       calls[k].op = "scan" =>
          /\ calls[k].arg.serverDetails = CliServer
          /\ calls[k].arg.serverDetails = serverDetails

\* The resolver of the first unit replaced the server details of params,
\* which still names the replacement at the end, and the backend calls of
\* both units were sent to the caller's server.
C30_Witness ==
    /\ Returned
    /\ ResolverReplaced(1)
    /\ \E k \in CallsFor("scan", 1) : calls[k].arg.serverDetails = CliServer
    /\ params.serverDetails # CliServer
    /\ \E k \in CallsFor("scan", 2) : calls[k].arg.serverDetails = CliServer

(***************************************************************************)
(* A technology the dispatch of GetTechDependencyTree has no builder for.  *)
(***************************************************************************)
\* The units that returned and for which GetTechDependencyTree was called
\* with a technology outside of the dispatch.
UnsupportedUnits ==
    { i \in 1..Len(outcomes) :
         /\ scans[i].Technology \notin {Maven, Npm, Pip, Nuget}
         /\ \E c \in CallsFor("chdir", i) : calls[c].arg.ok }

\* GetTechDependencyTree got as far as the dispatch for unit i: the server
\* details were read and the resolver returned without error.
ReachedDispatch(i) == \E r \in ResolveOf(i) : resolves[r].result.cause = "nil"

\* C31 as stated: for every unit of such a technology no builder is called
\* and GetTechDependencyTree returns the 'not supported' error.
C31_UnsupportedAlwaysNotSupported ==
    \A i \in UnsupportedUnits :
       /\ BuildOf(i) = {}
       /\ outcomes[i] = UnitError("treeBuild", scans[i].Technology, "unsupported")

\* C31, amended: for a unit of such a technology no builder is called and
\* nothing is flattened or sent to the backend; the unit fails with the
\* 'failed while building' message naming the technology, wrapping the
\* 'not supported' error when GetTechDependencyTree got as far as the
\* dispatch and the error of the server details or of the resolver when it
\* did not; the unit is not in results and the units after it are started.
C31_UnsupportedFailsTreeBuild ==
    /\ \A i \in UnsupportedUnits :
          /\ BuildOf(i) = {}
          /\ CallsFor("build", i) = {}
          /\ CallsFor("flatten", i) = {}
          /\ CallsFor("scan", i) = {}
          /\ outcomes[i].kind = "treeBuild"
          /\ outcomes[i].tech = scans[i].Technology
          /\ (outcomes[i].cause = "unsupported") <=> ReachedDispatch(i)
          /\ ~InResults(scans[i])
    /\ (Returned /\ Len(scans) > 0) => Len(started) = Len(scans)

\* A Docker unit failed as not supported and the npm unit after it succeeded.
C31_Witness ==
    /\ Returned
    /\ Len(outcomes) = 2
    /\ scans[1].Technology = Docker
    /\ outcomes[1] = UnitError("treeBuild", Docker, "unsupported")
    /\ ~Failed(2)
    /\ Len(results) = 1
    /\ results[1].Technology = Npm

(***************************************************************************)
(* Properties of projectKeyCallback.                                       *)
(***************************************************************************)
\* The applications of one callback.
ApplicationsOf(callback) == { n \in 1..Len(applied) : applied[n].callback = callback }

\* The answers map held a string under the repository key.
HadStringKey(a) ==
    Key \in DOMAIN a.before.AnswersMap /\ a.before.AnswersMap[Key].isString

\* s is prefix followed by something.
StartsWith(s, prefix) ==
    Len(s) >= Len(prefix) /\ SubSeq(s, 1, Len(prefix)) = prefix

\* C32: applied to an answers map with a string repository key, the
\* callback returns no error and leaves a key that starts with the project
\* key and a dash: the key as it was when it started so already, the key
\* with the prefix in front of it otherwise, and nothing else is changed;
\* a second application with the same project key changes nothing.  With
\* the key missing or not a string it returns an error and the answers map
\* is as it was.
C32_ProjectKeyPrefix ==
    \A n \in ApplicationsOf("projectKeyCallback") :
       LET a == applied[n]
           prefix == a.arg \o <<"-">>
           before == a.before.AnswersMap
           after == a.after.AnswersMap
       IN  /\ HadStringKey(a) =>
                /\ a.err = "nil"
                /\ after[Key].isString
                /\ StartsWith(after[Key].chars, prefix)
                /\ after[Key].chars =
                      IF StartsWith(before[Key].chars, prefix)
                      THEN before[Key].chars
                      ELSE prefix \o before[Key].chars
                /\ DOMAIN after = DOMAIN before
                /\ \A k \in DOMAIN before \ {Key} : after[k] = before[k]
                /\ a.after.OptionalKeysSuggests = a.before.OptionalKeysSuggests
           /\ ~HadStringKey(a) =>
                /\ a.err # "nil"
                /\ a.after = a.before
           /\ (n > 1 /\ applied[n - 1].callback = "projectKeyCallback"
                     /\ applied[n - 1].arg = a.arg)
                => a.after = a.before

\* The key "k" got the prefix "p-" and a second application with the same
\* project key left it as "p-k".
C32_Witness ==
    /\ Len(applied) = 2
    /\ applied[1].arg = <<"p">>
    /\ applied[2].arg = <<"p">>
    /\ HadStringKey(applied[1])
    /\ applied[1].before.AnswersMap[Key] = Str(<<"k">>)
    /\ applied[1].err = "nil"
    /\ applied[2].err = "nil"
    /\ answersMap[Key] = Str(<<"p", "-", "k">>)

(***************************************************************************)
(* Properties of the repository-template questionnaire.                    *)
(***************************************************************************)
\* The answers map holds word w under key k.
Holds(m, k, w) == k \in DOMAIN m /\ m[k] = Word(w)

\* pkgTypeCallback is to fail on this answers map: rclass is missing or is
\* none of the four classes, or it is remote and templateType is missing.
PkgTypeIsToFail(m) ==
    \/ Rclass \notin DOMAIN m
    \/ m[Rclass] \notin { Word(c) : c \in {Local, Remote, Virtual, Federated} }
    \/ (m[Rclass] = Word(Remote) /\ TemplateType \notin DOMAIN m)

\* C33: an application of pkgTypeCallback that returns no error leaves the
\* answers map without templateType and otherwise as it was; it returns an
\* error exactly when rclass is missing or unsupported or, for a remote
\* repository, templateType is missing, and then the answers map and the
\* optional-key suggestions are as they were.  In a run of the command
\* templateType is gone from the answers map once the mandatory questions
\* are through, and a template that is written does not hold it.
C33_TemplateTypeRemoved ==
    /\ \A n \in ApplicationsOf("pkgTypeCallback") :
          LET a == applied[n]
              before == a.before.AnswersMap
              after == a.after.AnswersMap
          IN  /\ (a.err # "nil") <=> PkgTypeIsToFail(before)
              /\ a.err # "nil" => a.after = a.before
              /\ a.err = "nil" =>
                    /\ DOMAIN after = DOMAIN before \ {TemplateType}
                    /\ \A k \in DOMAIN after : after[k] = before[k]
    /\ tpc \in {"optional", "performed"} => TemplateType \notin DOMAIN answersMap
    /\ template.written => TemplateType \notin DOMAIN template.content
    /\ (tpc = "returned" /\ terr = "nil") => template.written

\* A create template of a remote repository was written: it holds the key,
\* the class, the url and the package type, and not the template type.
C33_Witness ==
    /\ tpc = "returned"
    /\ template.written
    /\ Len(asked) >= 1
    /\ asked[1] = Asked(TemplateType, Create)
    /\ DOMAIN template.content = {Key, Rclass, Url, PackageType}
    /\ Holds(template.content, Rclass, Remote)

\* The questions of a list of asked questions, in order.
Questions(qs) == [n \in 1..Len(qs) |-> qs[n].question]

\* The answer given in this run to a mandatory question that was asked.
Answered(question, answer) == \E n \in 1..Len(asked) : asked[n] = Asked(question, answer)

\* The run is through the mandatory questions and no optional key has been
\* answered.
MandatoryDone == tpc = "optional" /\ OptionalAnswered = 0

\* C34: rclassCallback asks the mandatory-url question exactly when it is
\* called with remote and templateType is create, and then before the
\* package-type question; called with anything but local, remote, virtual
\* or federated it returns an error, asks nothing and changes nothing.
\* After a successful pkgTypeCallback url is among the optional-key
\* suggestions exactly when rclass is remote and templateType was update.
\* In a run of the command, once the mandatory questions are through, url
\* has been asked for and is in the answers map exactly for a remote create
\* template, and is among the suggestions exactly for a remote update
\* template.
C34_UrlMandatoryOrOptional ==
    /\ \A n \in ApplicationsOf("rclassCallback") :
          LET a == applied[n]
              qs == Questions(a.asked)
              remoteCreate == a.arg = Remote /\ Holds(a.before.AnswersMap, TemplateType, Create)
          IN  /\ (\E i \in 1..Len(qs) : qs[i] = MandatoryUrl) <=> remoteCreate
              /\ remoteCreate => qs = <<MandatoryUrl, PackageType>>
              /\ qs \in { <<>>, <<PackageType>>, <<MandatoryUrl, PackageType>> }
              /\ a.arg \notin {Local, Remote, Virtual, Federated} =>
                    /\ a.err # "nil"
                    /\ qs = <<>>
                    /\ a.after = a.before
    /\ \A n \in ApplicationsOf("pkgTypeCallback") :
          LET a == applied[n]
          IN  a.err = "nil" =>
                 ((Url \in a.after.OptionalKeysSuggests)
                    <=> (/\ Holds(a.before.AnswersMap, Rclass, Remote)
                         /\ Holds(a.before.AnswersMap, TemplateType, Update)))
    /\ MandatoryDone =>
          LET remote == Answered(Rclass, Remote)
              qs == Questions(asked)
          IN  /\ (Url \in DOMAIN answersMap) <=> (remote /\ Answered(TemplateType, Create))
              /\ (Url \in optionalKeysSuggests) <=> (remote /\ Answered(TemplateType, Update))
              /\ qs = IF remote /\ Answered(TemplateType, Create)
                      THEN <<TemplateType, Key, Rclass, MandatoryUrl, PackageType>>
                      ELSE <<TemplateType, Key, Rclass, PackageType>>

\* In a run for an update template of a remote repository url was not
\* asked for, is offered among the optional keys and was then chosen.
C34_Witness ==
    /\ tpc = "performed"
    /\ Answered(TemplateType, Update)
    /\ Answered(Rclass, Remote)
    /\ Url \in optionalKeysSuggests
    /\ Questions(asked) = <<TemplateType, Key, Rclass, PackageType, "optionalKey", Url,
                            "optionalKey">>
    /\ Url \in DOMAIN answersMap

====
